---- MODULE Spec2Model ----
(***************************************************************************)
(* A model of orcinustools/nginx-api: the generic nginx configuration      *)
(* parser (src/libs/nginx-config-parser.ts).                                *)
(*                                                                          *)
(* Strings are sequences of one-character strings, so that trimming,        *)
(* splitting, the regular-expression rewrites of the scanner and the        *)
(* column alignment of the serializer are computed, not assumed.            *)
(*                                                                          *)
(* A JavaScript value is a record [t, s, m, e, n]:                          *)
(*   t = "S"  a string, its characters in s                                 *)
(*   t = "B"  a plain object, its own properties in m, in key order         *)
(*   t = "L"  an array, its elements in e (named own properties in m)       *)
(*   t = "N"  a number n                                                    *)
(*   t = "U"  undefined                                                     *)
(* Properties inherited from Object.prototype / Array.prototype are not     *)
(* modelled; the own property `length` of an array is.                      *)
(***************************************************************************)
EXTENDS Naturals, Integers, Sequences, FiniteSets, TLC

VARIABLES
  \* ---- one parse of a text, include resolution disabled (SpecParse) ----
  conf,        \* the text handed to Parser.parse
  pc,          \* "scan" | "parsed" | "serialized" | "reparsed"
  lineNo,      \* number of physical lines already consumed by lines.forEach
  st,          \* the locals of toJSON: json, parent, chunkedLine, ...
  out,         \* Parser.toConf(json)
  tree2,       \* Parser.parse(out)
  \* ---- path access on a tree (SpecPath) ----
  ptree,       \* the object handed to resolve / resolveSet
  ppath,       \* the dotted path
  pval,        \* the value to set
  pres,        \* what resolve returned
  pset,        \* what resolveSet returned and the object afterwards
  ppc,         \* "idle" | "got" | "set"
  \* ---- the module-level Parser instance and its callers (Spec) ----
  serverRoot,  \* Parser.serverRoot of the shared instance
  fileName,    \* Parser.fileName of the shared instance
  heap,        \* the json objects built by toJSON, by object id
  calls,       \* the readConfigFile calls made so far, with what each returned
  tasks,       \* the handleInclude promises still running
  rejections,  \* promises rejected with nobody awaiting them
  \* ---- generateNginxConfig called on one schema object (SpecGen) ----
  given,       \* the schema as the caller built it
  schema,      \* the schema object now
  texts,       \* what each call of generateNginxConfig returned, in call order
  \* ---- NginxToJSON.convert of a text, then generation (SpecExtract) ----
  input,       \* the nginx text handed to convert
  extracted,   \* what convert did: [ok, v]
  regenerated, \* what generateNginxConfig did with the extracted schema
  xpc,         \* "off" | "text" | "converted" | "regenerated"
  \* ---- the POST handler of main.ts (SpecHandler) ----
  responses,   \* the requests answered so far: [body, status, wrote]
  written,     \* the files written by the handler: [name, content]
  \* ---- server.ts and Parser.writeConfigFile on one file system (SpecServer) ----
  disk,        \* what is at each path: nothing, a directory, or a file's text
  writes,      \* the direct calls of writeConfigFile made so far, with their outcome
  jobs,        \* the HTTP requests received so far, each with its position and answer
  \* ---- LetsEncryptClient.generateCertificate (SpecAcme) ----
  client,      \* the fields of the client: directory, account, nonce
  run,         \* the generateCertificate call: its position, locals and outcome
  wire         \* the HTTP requests the client has sent, in order

parseVars == <<conf, pc, lineNo, st, out, tree2>>
pathVars == <<ptree, ppath, pval, pres, pset, ppc>>
svcVars == <<serverRoot, fileName, heap, calls, tasks, rejections>>
appVars == <<given, schema, texts, input, extracted, regenerated, xpc, responses, written>>
opsVars == <<disk, writes, jobs, client, run, wire>>
vars == <<conf, pc, lineNo, st, out, tree2, ptree, ppath, pval, pres, pset, ppc,
          serverRoot, fileName, heap, calls, tasks, rejections,
          given, schema, texts, input, extracted, regenerated, xpc, responses, written,
          disk, writes, jobs, client, run, wire>>

----------------------------------------------------------------------------
(* Strings *)

WS == {" ", "\t", "\n"}

MinOf(S) == CHOOSE x \in S : \A y \in S : x <= y

MaxOf(S) == CHOOSE x \in S : \A y \in S : x >= y

\* String.prototype.trim
Trim(s) ==
  LET keep == {i \in 1..Len(s) : s[i] \notin WS}
  IN IF keep = {} THEN <<>> ELSE SubSeq(s, MinOf(keep), MaxOf(keep))

StartsWith(s, p) == Len(s) >= Len(p) /\ SubSeq(s, 1, Len(p)) = p

EndsWith(s, p) == Len(s) >= Len(p) /\ SubSeq(s, Len(s) - Len(p) + 1, Len(s)) = p

\* String.prototype.split with a one-character separator
RECURSIVE Split(_, _)
Split(s, c) ==
  LET at == {i \in 1..Len(s) : s[i] = c}
  IN IF at = {} THEN <<s>>
     ELSE LET i == MinOf(at)
          IN <<SubSeq(s, 1, i - 1)>> \o Split(SubSeq(s, i + 1, Len(s)), c)

\* Array.prototype.join
RECURSIVE Join(_, _)
Join(parts, sep) ==
  IF parts = <<>> THEN <<>>
  ELSE IF Len(parts) = 1 THEN parts[1]
  ELSE parts[1] \o sep \o Join(Tail(parts), sep)

\* String.prototype.repeat of a one-character string
Repeat(c, k) == [i \in 1..k |-> c]

\* str.replace(c, '') : the first occurrence only
RemoveFirst(s, c) ==
  LET at == {i \in 1..Len(s) : s[i] = c}
  IN IF at = {} THEN s
     ELSE LET i == MinOf(at) IN SubSeq(s, 1, i - 1) \o SubSeq(s, i + 1, Len(s))

\* length of the run of whitespace that starts at position i of s
WsRun(s, i) ==
  LET stop == {j \in i..Len(s) : s[j] \notin WS}
  IN IF stop = {} THEN Len(s) - i + 1 ELSE MinOf(stop) - i

unsafeKey(key) == [i \in 1..Len(key) |-> IF key[i] = "!" THEN "." ELSE key[i]]

safeKey(key) == [i \in 1..Len(key) |-> IF key[i] = "." THEN "!" ELSE key[i]]

----------------------------------------------------------------------------
(* Values *)

Undefined == [t |-> "U", s |-> <<>>, m |-> <<>>, e |-> <<>>, n |-> 0]

Str(s) == [t |-> "S", s |-> s, m |-> <<>>, e |-> <<>>, n |-> 0]

Obj(m) == [t |-> "B", s |-> <<>>, m |-> m, e |-> <<>>, n |-> 0]

Arr(e) == [t |-> "L", s |-> <<>>, m |-> <<>>, e |-> e, n |-> 0]

Num(n) == [t |-> "N", s |-> <<>>, m |-> <<>>, e |-> <<>>, n |-> n]

\* typeof v === 'object' && v
IsObject(v) == v.t \in {"B", "L"}

Digits == <<"0", "1", "2", "3", "4", "5", "6", "7", "8", "9">>

DigitVal(c) == (CHOOSE i \in 1..10 : Digits[i] = c) - 1

IsDigit(c) == \E i \in 1..10 : Digits[i] = c

\* a property name that is an array index (one digit is all the model needs)
IsIndexKey(k) == Len(k) = 1 /\ IsDigit(k[1])

LengthKey == <<"l", "e", "n", "g", "t", "h">>

HasKey(m, k) == \E i \in 1..Len(m) : m[i].k = k

Lookup(m, k) ==
  IF HasKey(m, k) THEN m[CHOOSE i \in 1..Len(m) : m[i].k = k].v ELSE Undefined

\* obj[k], a property read
Get(v, k) ==
  IF v.t = "B" THEN Lookup(v.m, k)
  ELSE IF v.t = "L" THEN
    IF IsIndexKey(k) THEN
      (IF DigitVal(k[1]) < Len(v.e) THEN v.e[DigitVal(k[1]) + 1] ELSE Undefined)
    ELSE IF k = LengthKey THEN Num(Len(v.e))
    ELSE Lookup(v.m, k)
  ELSE Undefined

\* own properties of a plain object keep insertion order, except that
\* integer-like keys come first, in ascending order
PutEntry(m, k, val) ==
  IF HasKey(m, k) THEN
    [i \in 1..Len(m) |-> IF m[i].k = k THEN [k |-> k, v |-> val] ELSE m[i]]
  ELSE IF IsIndexKey(k) THEN
    LET before == {i \in 1..Len(m) :
                     IsIndexKey(m[i].k) /\ DigitVal(m[i].k[1]) < DigitVal(k[1])}
        j == Cardinality(before)
    IN SubSeq(m, 1, j) \o <<[k |-> k, v |-> val]>> \o SubSeq(m, j + 1, Len(m))
  ELSE Append(m, [k |-> k, v |-> val])

\* obj[k] = val, a property write on an object or an array
Put(v, k, val) ==
  IF v.t = "B" THEN [v EXCEPT !.m = PutEntry(v.m, k, val)]
  ELSE IF IsIndexKey(k) THEN
    LET i == DigitVal(k[1])
    IN IF i < Len(v.e) THEN [v EXCEPT !.e[i + 1] = val]
       ELSE [v EXCEPT !.e = v.e \o [j \in 1..(i - Len(v.e)) |-> Undefined] \o <<val>>]
  ELSE [v EXCEPT !.m = PutEntry(v.m, k, val)]

\* Object.entries(v)
Entries(v) ==
  IF v.t = "B" THEN v.m
  ELSE IF v.t = "L" THEN
    SelectSeq([i \in 1..Len(v.e) |-> [k |-> <<Digits[i]>>, v |-> v.e[i]]],
              LAMBDA en : en.v.t # "U") \o v.m
  ELSE <<>>

----------------------------------------------------------------------------
(* Path access: Parser.resolve, Parser.resolveSet *)

RECURSIVE resolveFrom(_, _)
resolveFrom(prev, comps) ==
  IF comps = <<>> THEN prev
  ELSE resolveFrom(IF IsObject(prev) THEN Get(prev, unsafeKey(comps[1])) ELSE Undefined,
                   Tail(comps))

resolve(obj, path) == resolveFrom(obj, Split(path, "."))

\* resolveSet as it would be if it created the missing intermediate objects
RECURSIVE resolveSetVivify(_, _, _)
resolveSetVivify(current, components, val) ==
  LET cur == IF IsObject(current) THEN current ELSE Obj(<<>>)
  IN IF Len(components) = 1 THEN
       [ok |-> TRUE, obj |-> Put(cur, unsafeKey(components[1]), val)]
     ELSE
       LET key == unsafeKey(components[1])
           r == resolveSetVivify(Get(cur, key), Tail(components), val)
       IN [ok |-> TRUE, obj |-> Put(cur, key, r.obj)]

\* the while loop of resolveSet; the result is [ok, obj]: the returned flag and
\* the object after the call
RECURSIVE resolveSetFrom(_, _, _)
resolveSetFrom(current, components, val) ==
  IF ~IsObject(current) THEN [ok |-> FALSE, obj |-> current]
  ELSE IF Len(components) = 1 THEN
    [ok |-> TRUE, obj |-> Put(current, unsafeKey(components[1]), val)]
  ELSE
    LET key == unsafeKey(components[1])
        r == resolveSetFrom(Get(current, key), Tail(components), val)
    IN IF r.ok THEN [ok |-> TRUE, obj |-> Put(current, key, r.obj)]
       ELSE [ok |-> FALSE, obj |-> current]

resolveSet(obj, path, val) == resolveSetFrom(obj, Split(path, "."), val)

----------------------------------------------------------------------------
(* The scanner and tree builder: Parser.toJSON *)

\* lineRaw.replace(/(\s+{)/g, '\n$1\n')
RECURSIVE SplitOpenBrace(_)
SplitOpenBrace(s) ==
  IF s = <<>> THEN <<>>
  ELSE IF s[1] \in WS THEN
    LET k == WsRun(s, 1)
    IN IF k < Len(s) /\ s[k + 1] = "{"
       THEN <<"\n">> \o SubSeq(s, 1, k + 1) \o <<"\n">>
              \o SplitOpenBrace(SubSeq(s, k + 2, Len(s)))
       ELSE SubSeq(s, 1, k) \o SplitOpenBrace(SubSeq(s, k + 1, Len(s)))
  ELSE <<s[1]>> \o SplitOpenBrace(Tail(s))

\* .replace(/(;\s*)}/g, '$1\n}\n')
RECURSIVE SplitCloseBrace(_)
SplitCloseBrace(s) ==
  IF s = <<>> THEN <<>>
  ELSE IF s[1] = ";" THEN
    LET k == WsRun(s, 2)
    IN IF k + 1 < Len(s) /\ s[k + 2] = "}"
       THEN SubSeq(s, 1, k + 1) \o <<"\n", "}", "\n">>
              \o SplitCloseBrace(SubSeq(s, k + 3, Len(s)))
       ELSE <<";">> \o SplitCloseBrace(Tail(s))
  ELSE <<s[1]>> \o SplitCloseBrace(Tail(s))

\* .replace(/;\s*?$/g, ';\n') : `$` is the end of the string (no m flag), so
\* only a `;` followed by nothing but whitespace is rewritten
SplitLastSemicolon(s) ==
  LET at == {i \in 1..Len(s) : s[i] = ";" /\ WsRun(s, i + 1) = Len(s) - i}
  IN IF at = {} THEN s ELSE SubSeq(s, 1, MinOf(at)) \o <<"\n">>

\* innerLines of one physical line
InnerLines(lineRaw) ==
  Split(SplitLastSemicolon(SplitCloseBrace(SplitOpenBrace(lineRaw))), "\n")

\* the text of ('.' + length - 1): the string '.<length>' is converted to a
\* number, 1 is subtracted, and the difference is appended to the path
IndexSuffix(length) ==
  CASE length = 2 -> <<"-", "0", ".", "8">>
    [] length = 3 -> <<"-", "0", ".", "7">>
    [] length = 4 -> <<"-", "0", ".", "6">>
    [] length = 5 -> <<"-", "0", ".", "5">>
    [] length = 6 -> <<"-", "0", ".", "4">>

\* !isNaN(parseInt(s, 10))
ParsesAsInt(s) ==
  LET first == {i \in 1..Len(s) : s[i] \notin WS}
  IN first # {} /\
     LET i == MinOf(first)
     IN \/ IsDigit(s[i])
        \/ s[i] \in {"-", "+"} /\ i < Len(s) /\ IsDigit(s[i + 1])

\* Array.prototype.pop, the array afterwards
Pop(a) == IF a = <<>> THEN a ELSE SubSeq(a, 1, Len(a) - 1)

LuaKey == <<"_", "l", "u", "a">>

LuaSuffix == <<"b", "y", "_", "l", "u", "a", "_", "b", "l", "o", "c", "k">>

IncludeWord == <<"i", "n", "c", "l", "u", "d", "e">>

\* resolveAppendSet: [isInArray, json]
resolveAppendSet(json, key, val) ==
  LET existingVal == resolve(json, key)
      mergedValues ==
        (IF existingVal.t = "L" THEN existingVal ELSE Arr(<<existingVal>>))
      pushed == [mergedValues EXCEPT
                   !.e = @ \o (IF val.t = "L" THEN val.e ELSE <<val>>)]
  IN IF existingVal # Undefined
     THEN [isInArray |-> TRUE, json |-> resolveSet(json, key, pushed).obj]
     ELSE [isInArray |-> FALSE, json |-> resolveSet(json, key, val).obj]

appendValue(json, key, val, parent) ==
  IF parent # <<>> THEN resolveAppendSet(json, parent \o <<".">> \o key, val)
  ELSE resolveAppendSet(json, key, val)

handlePropertyLine(line, json, parent) ==
  LET parts == Split(line, " ")
      key0 == safeKey(parts[1])
      val0 == Trim(Join(Tail(parts), <<" ">>))
      key == IF EndsWith(key0, <<";">>) THEN SubSeq(key0, 1, Len(key0) - 1) ELSE key0
      val == IF val0 = <<>> THEN val0 ELSE SubSeq(val0, 1, Len(val0) - 1)
  IN appendValue(json, key, Str(val), parent).json

handleClosingBrace(json, parent, isInLuaBlock, luaBlockValue) ==
  IF isInLuaBlock
  THEN appendValue(json, LuaKey, Arr([i \in 1..Len(luaBlockValue) |-> Str(luaBlockValue[i])]),
                   parent).json
  ELSE json

\* the locals of toJSON before the first line
InitialScan ==
  [json |-> Obj(<<>>), parent |-> <<>>, chunkedLine |-> <<>>,
   countOfParentsThatAreArrays |-> 0, isInLuaBlock |-> FALSE,
   luaBlockValue |-> <<>>, includes |-> <<>>]

\* the `line.endsWith('{')` branch
OpenBlock(s, line) ==
  LET key == safeKey(Trim(SubSeq(line, 1, Len(line) - 1)))
      parent == IF s.parent # <<>> THEN s.parent \o <<".">> \o key ELSE key
      r == appendValue(s.json, parent, Obj(<<>>), <<>>)
      opened == [s EXCEPT !.chunkedLine = <<>>,
                          !.isInLuaBlock = @ \/ EndsWith(key, LuaSuffix),
                          !.parent = parent,
                          !.json = r.json]
  IN IF r.isInArray
     THEN [opened EXCEPT
             !.parent = @ \o IndexSuffix(Len(resolve(r.json, parent).e)),
             !.countOfParentsThatAreArrays = @ + 1]
     ELSE opened

\* the `line.endsWith('}')` branch
CloseBlock(s) ==
  LET json == handleClosingBrace(s.json, s.parent, s.isInLuaBlock, s.luaBlockValue)
      segs == Split(s.parent, ".")
      isIndex == s.countOfParentsThatAreArrays > 0 /\ ParsesAsInt(segs[Len(segs)])
      left == IF isIndex THEN Pop(Pop(segs)) ELSE Pop(segs)
  IN [s EXCEPT !.json = json,
               !.chunkedLine = <<>>,
               !.parent = Join(left, <<".">>),
               !.countOfParentsThatAreArrays = IF isIndex THEN @ - 1 ELSE @,
               !.isInLuaBlock = FALSE,
               !.luaBlockValue = <<>>]

\* the body of innerLines.forEach
ProcessLine(s, inner, options) ==
  LET trimmed == Trim(inner)
      line == IF s.chunkedLine # <<>> THEN s.chunkedLine \o <<" ">> \o trimmed
              ELSE trimmed
  IN IF trimmed = <<>> THEN s
     ELSE IF s.isInLuaBlock /\ ~EndsWith(trimmed, <<"}">>)
       THEN [s EXCEPT !.luaBlockValue = Append(@, trimmed)]
     ELSE IF EndsWith(line, <<"{">>) THEN OpenBlock(s, line)
     ELSE IF StartsWith(line, IncludeWord) /\ options.parseIncludes
       THEN [s EXCEPT !.includes = Append(@, [line |-> line, parent |-> s.parent])]
     ELSE IF EndsWith(line, <<";">>)
       THEN [s EXCEPT !.json = handlePropertyLine(line, s.json, s.parent),
                      !.chunkedLine = <<>>]
     ELSE IF EndsWith(line, <<"}">>) THEN CloseBlock(s)
     ELSE [s EXCEPT !.chunkedLine = line]

RECURSIVE ProcessLines(_, _, _)
ProcessLines(s, inner, options) ==
  IF inner = <<>> THEN s
  ELSE ProcessLines(ProcessLine(s, inner[1], options), Tail(inner), options)

\* the body of lines.forEach
ScanLine(s, physical, options) ==
  LET lineRaw == Trim(physical)
  IN IF lineRaw = <<>> \/ lineRaw[1] = "#" THEN s
     ELSE ProcessLines(s, InnerLines(Trim(Split(lineRaw, "#")[1])), options)

\* conf.replace('\t', '').split('\n')
PhysicalLines(text) == Split(RemoveFirst(text, "\t"), "\n")

RECURSIVE ScanLines(_, _, _)
ScanLines(s, lines, options) ==
  IF lines = <<>> THEN s
  ELSE ScanLines(ScanLine(s, lines[1], options), Tail(lines), options)

\* the locals of toJSON after the last line
toJSONScan(text, options) == ScanLines(InitialScan, PhysicalLines(text), options)

toJSON(text, options) == toJSONScan(text, options).json

----------------------------------------------------------------------------
(* The serializer: Parser.toConf *)

\* a scalar as `+` concatenates it to a string
ToStr(v) ==
  IF v.t = "S" THEN v.s
  ELSE IF v.t = "N" THEN <<Digits[v.n + 1]>>
  ELSE <<"u", "n", "d", "e", "f", "i", "n", "e", "d">>

RECURSIVE Concat(_)
Concat(parts) == IF parts = <<>> THEN <<>> ELSE parts[1] \o Concat(Tail(parts))

Indent(depth) == Repeat(" ", 4 * depth)

RECURSIVE recurse(_, _)

\* one element of a repeated key: val.forEach(subVal => ...)
ElementText(key, subVal, keyValIndent, depth) ==
  IF subVal.t = "U" THEN <<>>
  ELSE IF IsObject(subVal) THEN
    Indent(depth)
      \o Trim(key \o <<" ">> \o <<" ", "{", "\n">> \o recurse(subVal, depth + 1)
                \o Indent(depth) \o <<"}", "\n", "\n">>)
      \o <<"\n">>
  ELSE Indent(depth) \o Trim(key \o keyValIndent \o ToStr(subVal)) \o <<";", "\n">>

\* one iteration of `for (const [key, val] of Object.entries(obj))`
EntryText(key, val, longestKeyLen, depth) ==
  LET keyValIndent == Repeat(" ", longestKeyLen - Len(key) + 4)
  IN IF val.t = "L" THEN
       IF key = LuaKey THEN
         (IF Len(val.e) > 0 THEN Indent(depth) ELSE <<>>)
           \o Join([i \in 1..Len(val.e) |-> ToStr(val.e[i])], <<"\n">> \o Indent(depth))
           \o <<"\n">>
       ELSE Concat([i \in 1..Len(val.e) |->
                      ElementText(key, val.e[i], keyValIndent, depth)])
     ELSE IF IsObject(val) THEN
       Indent(depth) \o key \o <<" ", "{", "\n">> \o recurse(val, depth + 1)
         \o Indent(depth) \o <<"}", "\n", "\n">>
     ELSE Indent(depth) \o Trim(key \o keyValIndent \o ToStr(val)) \o <<";", "\n">>

recurse(obj, depth) ==
  LET ents == Entries(obj)
      longestKeyLen == MaxOf({1} \cup {Len(ents[i].k) : i \in 1..Len(ents)})
  IN Concat([i \in 1..Len(ents) |-> EntryText(ents[i].k, ents[i].v, longestKeyLen, depth)])

toConf(json) == recurse(json, 0)

----------------------------------------------------------------------------
(* SpecParse: Parser.parse(text, {parseIncludes: false}), then               *)
(* Parser.toConf of the tree, then Parser.parse of that text.  The text is   *)
(* built from the lines below (none holds a tab, so conf.replace('\t', '')   *)
(* leaves it as it is):                                                      *)
(*   1  a 1;                                                                  *)
(*   2  a 2 ;  (a blank before the separator)                                 *)
(*   3  s { a 1; }  (a whole block)                                           *)
(*   4  s { a 1;  (opens a block; its first directive)                        *)
(*   5  }                                                                     *)
(*   6  b.c 3; # x  (a dotted key, a comment)                                 *)
(*   7  by_lua_block {  (opens script mode)                                   *)
(*   8  t  (no terminator: continued on the next line)                        *)
(*   9  a 1; a 2 ;  (two directives on one physical line)                     *)
(*  10  2 {  (opens a block whose name is a number)                           *)

MaxLines == 4

InputLines ==
  <<<<"a", " ", "1", ";">>,
    <<"a", " ", "2", " ", ";">>,
    <<"s", " ", "{", " ", "a", " ", "1", ";", " ", "}">>,
    <<"s", " ", "{", " ", "a", " ", "1", ";">>,
    <<"}">>,
    <<"b", ".", "c", " ", "3", ";", " ", "#", " ", "x">>,
    <<"b", "y", "_", "l", "u", "a", "_", "b", "l", "o", "c", "k", " ", "{">>,
    <<"t">>,
    <<"a", " ", "1", ";", " ", "a", " ", "2", " ", ";">>,
    <<"2", " ", "{">>>>

NoIncludes == [parseIncludes |-> FALSE, ignoreIncludeErrors |-> FALSE]

ParseIdle ==
  /\ conf = <<>>
  /\ pc = "idle"
  /\ lineNo = 0
  /\ st = InitialScan
  /\ out = <<>>
  /\ tree2 = Undefined

PathIdle ==
  /\ ptree = Undefined
  /\ ppath = <<>>
  /\ pval = Undefined
  /\ pres = Undefined
  /\ pset = [ok |-> FALSE, obj |-> Undefined]
  /\ ppc = "off"

SvcIdle ==
  /\ serverRoot = "null"
  /\ fileName = "null"
  /\ heap = <<>>
  /\ calls = <<>>
  /\ tasks = <<>>
  /\ rejections = 0

\* nothing has been generated, converted or requested
AppIdle ==
  /\ given = Undefined
  /\ schema = Undefined
  /\ texts = <<>>
  /\ input = <<>>
  /\ extracted = [ok |-> FALSE, v |-> Undefined]
  /\ regenerated = [ok |-> FALSE, v |-> Undefined]
  /\ xpc = "off"
  /\ responses = <<>>
  /\ written = <<>>

\* no file system is attached and no certificate has been asked for
OpsIdle ==
  /\ disk = <<>>
  /\ writes = <<>>
  /\ jobs = <<>>
  /\ client = Undefined
  /\ run = Undefined
  /\ wire = <<>>

InitParse ==
  /\ conf = <<>>
  /\ pc = "scan"
  /\ lineNo = 0
  /\ st = InitialScan
  /\ out = <<>>
  /\ tree2 = Undefined
  /\ PathIdle
  /\ SvcIdle
  /\ AppIdle
  /\ OpsIdle

\* one iteration of lines.forEach in toJSON, on the next line of the text
ScanNextLine ==
  /\ pc = "scan"
  /\ lineNo < MaxLines
  /\ \E i \in 1..Len(InputLines) :
       /\ conf' = (IF lineNo = 0 THEN InputLines[i] ELSE conf \o <<"\n">> \o InputLines[i])
       /\ st' = ScanLine(st, InputLines[i], NoIncludes)
  /\ lineNo' = lineNo + 1
  /\ pc' = "scan"
  /\ UNCHANGED <<out, tree2>>
  /\ UNCHANGED <<pathVars, svcVars, appVars, opsVars>>

\* the text is exhausted: toJSON returns json, parse returns it
ParseReturn ==
  /\ pc = "scan"
  /\ pc' = "parsed"
  /\ UNCHANGED <<conf, lineNo, st, out, tree2>>
  /\ UNCHANGED <<pathVars, svcVars, appVars, opsVars>>

\* Parser.toConf(tree)
Serialize ==
  /\ pc = "parsed"
  /\ out' = toConf(st.json)
  /\ pc' = "serialized"
  /\ UNCHANGED <<conf, lineNo, st, tree2>>
  /\ UNCHANGED <<pathVars, svcVars, appVars, opsVars>>

\* Parser.parse(text, {parseIncludes: false}) on the serialized text
Reparse ==
  /\ pc = "serialized"
  /\ tree2' = toJSON(out, NoIncludes)
  /\ pc' = "reparsed"
  /\ UNCHANGED <<conf, lineNo, st, out>>
  /\ UNCHANGED <<pathVars, svcVars, appVars, opsVars>>

NextParse == ScanNextLine \/ ParseReturn \/ Serialize \/ Reparse

SpecParse == InitParse /\ [][NextParse]_vars

----------------------------------------------------------------------------
(* What the claims about one parse speak of *)

\* a tree with every scalar trimmed: the comparison "modulo whitespace"
RECURSIVE NormTree(_)
NormTree(v) ==
  IF v.t = "S" THEN Str(Trim(v.s))
  ELSE IF v.t = "B" THEN
    Obj([i \in 1..Len(v.m) |-> [k |-> v.m[i].k, v |-> NormTree(v.m[i].v)]])
  ELSE IF v.t = "L" THEN Arr([i \in 1..Len(v.e) |-> NormTree(v.e[i])])
  ELSE v

\* the nesting depth after each character, with -1 once a `}` closes nothing
RECURSIVE BraceDepth(_, _)
BraceDepth(s, d) ==
  IF s = <<>> \/ d < 0 THEN d
  ELSE BraceDepth(Tail(s), IF s[1] = "{" THEN d + 1 ELSE IF s[1] = "}" THEN d - 1 ELSE d)

Balanced(text) == BraceDepth(text, 0) = 0

\* The tree the source text denotes, built with the path kept as a sequence of
\* segments [k, i]: block key k, and i the position in the List at k (0 when
\* the key holds a single Block).  Defined for texts of directives and blocks
\* (lines 1-6 above).
PlainLines == {InputLines[i] : i \in 1..6}

Plain(text) == text # <<>> /\ \A i \in DOMAIN Split(text, "\n") : Split(text, "\n")[i] \in PlainLines

\* the text without its comments, the lines joined by blanks
RefText(text) ==
  LET lines == Split(text, "\n")
  IN Join([i \in 1..Len(lines) |-> Split(lines[i], "#")[1]], <<" ">>)

RefInsertHere(block, key, val) ==
  LET old == Lookup(block.m, key)
  IN IF old = Undefined THEN Obj(Append(block.m, [k |-> key, v |-> val]))
     ELSE IF old.t = "L" THEN Obj(PutEntry(block.m, key, Arr(Append(old.e, val))))
     ELSE Obj(PutEntry(block.m, key, Arr(<<old, val>>)))

RECURSIVE RefInsert(_, _, _, _)
RefInsert(block, path, key, val) ==
  IF path = <<>> THEN RefInsertHere(block, key, val)
  ELSE LET seg == path[1]
           child == Lookup(block.m, seg.k)
       IN IF seg.i = 0
          THEN Obj(PutEntry(block.m, seg.k, RefInsert(child, Tail(path), key, val)))
          ELSE Obj(PutEntry(block.m, seg.k,
                            [child EXCEPT !.e[seg.i] = RefInsert(@, Tail(path), key, val)]))

\* the value at a path of segments; Undefined when the tree has none there
RECURSIVE At(_, _)
At(v, path) ==
  IF path = <<>> THEN v
  ELSE IF v.t # "B" THEN Undefined
  ELSE LET seg == path[1]
           child == Lookup(v.m, seg.k)
       IN IF seg.i = 0 THEN At(child, Tail(path))
          ELSE IF child.t = "L" /\ seg.i <= Len(child.e) THEN At(child.e[seg.i], Tail(path))
          ELSE Undefined

\* `name {` opens a block, `name args;` is a directive, `}` closes a block
RefOpen(r, name) ==
  LET tree == RefInsert(r.tree, r.path, name, Obj(<<>>))
      now == Lookup(At(tree, r.path).m, name)
  IN [tree |-> tree,
      path |-> Append(r.path, [k |-> name, i |-> IF now.t = "L" THEN Len(now.e) ELSE 0])]

RefDirective(r, body) ==
  LET parts == Split(body, " ")
  IN [r EXCEPT !.tree = RefInsert(r.tree, r.path, parts[1],
                                  Str(Trim(Join(Tail(parts), <<" ">>))))]

RECURSIVE RefBuild(_, _, _)
RefBuild(r, s, buf) ==
  IF s = <<>> THEN r
  ELSE IF s[1] = "{" THEN RefBuild(RefOpen(r, Trim(buf)), Tail(s), <<>>)
  ELSE IF s[1] = ";" THEN RefBuild(RefDirective(r, Trim(buf)), Tail(s), <<>>)
  ELSE IF s[1] = "}" THEN RefBuild([r EXCEPT !.path = Pop(r.path)], Tail(s), <<>>)
  ELSE RefBuild(r, Tail(s), Append(buf, s[1]))

RefTree(text) == RefBuild([tree |-> Obj(<<>>), path |-> <<>>], RefText(text), <<>>).tree

\* the paths of all Blocks of a tree
RECURSIVE BlockPaths(_)
BlockPaths(v) ==
  {<<>>} \cup
  UNION {
    LET en == v.m[j]
    IN IF en.v.t = "B" THEN {<<[k |-> en.k, i |-> 0]>> \o p : p \in BlockPaths(en.v)}
       ELSE IF en.v.t = "L" THEN
         UNION {IF en.v.e[i].t = "B"
                THEN {<<[k |-> en.k, i |-> i]>> \o p : p \in BlockPaths(en.v.e[i])}
                ELSE {} : i \in 1..Len(en.v.e)}
       ELSE {}
    : j \in 1..Len(v.m)}

AllOfType(list, ty) == \A i \in 1..Len(list.e) : list.e[i].t = ty

\* a parse of a plain, brace-balanced text has returned
PlainParsed == pc = "parsed" /\ Plain(conf) /\ Balanced(conf)

\* C1: parse(toConf(T)) equals T for every tree T that parse returned (include
\* resolution disabled): same keys in the same order, same nesting, same List
\* lengths and element order, scalars compared modulo surrounding whitespace.
C1_RoundTrip == pc = "reparsed" => NormTree(tree2) = NormTree(st.json)

\* C2: wherever the source has n >= 2 sibling directives with one key inside a
\* block, the parsed tree holds at that key of that block the flat List of
\* the n scalars, in source order.
C2_DirectiveLists ==
  PlainParsed =>
    \A bp \in BlockPaths(RefTree(conf)) :
      \A j \in 1..Len(At(RefTree(conf), bp).m) :
        LET en == At(RefTree(conf), bp).m[j]
        IN (en.v.t = "L" /\ AllOfType(en.v, "S")) =>
             NormTree(At(st.json, Append(bp, [k |-> en.k, i |-> 0]))) = en.v

\* C3: wherever the source has k >= 2 sibling blocks with one name, the parsed
\* tree holds at that key a List of k Blocks, the i-th equal to what is
\* written inside the i-th block.
C3_SiblingBlocks ==
  PlainParsed =>
    \A bp \in BlockPaths(RefTree(conf)) :
      \A j \in 1..Len(At(RefTree(conf), bp).m) :
        LET en == At(RefTree(conf), bp).m[j]
        IN (en.v.t = "L" /\ AllOfType(en.v, "B")) =>
             NormTree(At(st.json, Append(bp, [k |-> en.k, i |-> 0]))) = en.v

\* C7: a parse of a text with unbalanced braces returns no tree.
C7_UnbalancedRejected == ~(pc = "parsed" /\ ~Balanced(conf))

----------------------------------------------------------------------------
(* SpecPath: Parser.resolve and Parser.resolveSet on trees that toJSON built. *)

MaxPathLen == 3

\* the trees:  a 1; a 2; s { a 1; } s { a 1; } b.c 3;   and   s { a 1; s { a 1; } }
PathTrees ==
  {toJSON(<<"a", " ", "1", ";", "\n", "a", " ", "2", ";", "\n", "s", " ", "{", " ", "a", " ", "1", ";", " ", "}", "\n", "s", " ", "{", " ", "a", " ", "1", ";", " ", "}", "\n", "b", ".", "c", " ", "3", ";">>, NoIncludes),
   toJSON(<<"s", " ", "{", " ", "a", " ", "1", ";", "\n", "s", " ", "{", " ", "a", " ", "1", ";", " ", "}", "\n", "}">>, NoIncludes)}

\* path segments: keys the trees hold, a key they do not hold, List indices,
\* an escaped dotted key, and the name of the array property `length`
PathSegments ==
  {<<"a">>, <<"s">>, <<"z">>, <<"0">>, <<"1">>, <<"2">>, <<"b", "!", "c">>, LengthKey}

PathsOfLen(k) == [1..k -> PathSegments]

PathValues == {Str(<<"9">>), Obj(<<>>)}

InitPath ==
  /\ ptree \in PathTrees
  /\ \E k \in 1..MaxPathLen : \E segs \in PathsOfLen(k) : ppath = Join(segs, <<".">>)
  /\ pval \in PathValues
  /\ pres = Undefined
  /\ pset = [ok |-> FALSE, obj |-> Undefined]
  /\ ppc = "idle"
  /\ ParseIdle
  /\ SvcIdle
  /\ AppIdle
  /\ OpsIdle

\* Parser.resolve(obj, path)
Resolve ==
  /\ ppc = "idle"
  /\ pres' = resolve(ptree, ppath)
  /\ ppc' = "got"
  /\ UNCHANGED <<ptree, ppath, pval, pset>>
  /\ UNCHANGED <<parseVars, svcVars, appVars, opsVars>>

\* Parser.resolveSet(obj, path, val)
ResolveSet ==
  /\ ppc = "idle"
  /\ pset' = resolveSet(ptree, ppath, pval)
  /\ ppc' = "set"
  /\ UNCHANGED <<ptree, ppath, pval, pres>>
  /\ UNCHANGED <<parseVars, svcVars, appVars, opsVars>>

NextPath == Resolve \/ ResolveSet

SpecPath == InitPath /\ [][NextPath]_vars

\* the tree holds a value at the path: each segment is a key of the Block, or
\* an index below the length of the List, it is applied to
RECURSIVE HoldsPath(_, _)
HoldsPath(v, comps) ==
  IF comps = <<>> THEN TRUE
  ELSE LET key == unsafeKey(comps[1])
       IN IF v.t = "B" THEN HasKey(v.m, key) /\ HoldsPath(Lookup(v.m, key), Tail(comps))
          ELSE IF v.t = "L" THEN
            /\ IsIndexKey(key)
            /\ DigitVal(key[1]) < Len(v.e)
            /\ HoldsPath(v.e[DigitVal(key[1]) + 1], Tail(comps))
          ELSE FALSE

PathExists(tree, path) == HoldsPath(tree, Split(path, "."))

ParentPath(path) == Join(Pop(Split(path, ".")), <<".">>)

\* C8: resolve returns undefined for every path the tree does not hold.
C8_GetNotFound == (ppc = "got" /\ ~PathExists(ptree, ppath)) => pres = Undefined

----------------------------------------------------------------------------
(* Spec: the module-level Parser instance of server.ts and the calls of      *)
(* readConfigFile made on it, with include resolution.                       *)
(*                                                                           *)
(* The file system (it does not change):                                     *)
(*   d1/main   include c*;                                                   *)
(*   d1/site   include c*;  s { a 2; }                                       *)
(*   d1/miss   include z*;            (matches no file)                      *)
(*   d1/c1     s { a 1; }                                                    *)
(*   d1/c2     s { b 2; }                                                    *)
(*   d2/main   include c*;                                                   *)
(*   d2/c3     s { c 3; }                                                    *)
(*   d3/loop   include l*;            (matches d3/loop itself)               *)
(*   d4/ping   include po*;           (matches d4/pong)                      *)
(*   d4/pong   include pi*;           (matches d4/ping)                      *)
(* d1/none does not exist.                                                   *)

MaxCalls == 2

\* the longest chain of nested includes the model follows
MaxDepth == 3

FileSystem ==
  <<[dir |-> "d1", name |-> <<"m", "a", "i", "n">>, text |-> <<"i", "n", "c", "l", "u", "d", "e", " ", "c", "*", ";">>],
    [dir |-> "d1", name |-> <<"s", "i", "t", "e">>, text |-> <<"i", "n", "c", "l", "u", "d", "e", " ", "c", "*", ";", "\n", "s", " ", "{", " ", "a", " ", "2", ";", " ", "}">>],
    [dir |-> "d1", name |-> <<"m", "i", "s", "s">>, text |-> <<"i", "n", "c", "l", "u", "d", "e", " ", "z", "*", ";">>],
    [dir |-> "d1", name |-> <<"c", "1">>, text |-> <<"s", " ", "{", " ", "a", " ", "1", ";", " ", "}">>],
    [dir |-> "d1", name |-> <<"c", "2">>, text |-> <<"s", " ", "{", " ", "b", " ", "2", ";", " ", "}">>],
    [dir |-> "d2", name |-> <<"m", "a", "i", "n">>, text |-> <<"i", "n", "c", "l", "u", "d", "e", " ", "c", "*", ";">>],
    [dir |-> "d2", name |-> <<"c", "3">>, text |-> <<"s", " ", "{", " ", "c", " ", "3", ";", " ", "}">>],
    [dir |-> "d3", name |-> <<"l", "o", "o", "p">>, text |-> <<"i", "n", "c", "l", "u", "d", "e", " ", "l", "*", ";">>],
    [dir |-> "d4", name |-> <<"p", "i", "n", "g">>, text |-> <<"i", "n", "c", "l", "u", "d", "e", " ", "p", "o", "*", ";">>],
    [dir |-> "d4", name |-> <<"p", "o", "n", "g">>, text |-> <<"i", "n", "c", "l", "u", "d", "e", " ", "p", "i", "*", ";">>]>>

\* the paths callers hand to readConfigFile
CallFiles ==
  {[dir |-> "d1", name |-> <<"m", "a", "i", "n">>],
   [dir |-> "d1", name |-> <<"s", "i", "t", "e">>],
   [dir |-> "d1", name |-> <<"m", "i", "s", "s">>],
   [dir |-> "d2", name |-> <<"m", "a", "i", "n">>],
   [dir |-> "d3", name |-> <<"l", "o", "o", "p">>],
   [dir |-> "d4", name |-> <<"p", "i", "n", "g">>],
   [dir |-> "d1", name |-> <<"n", "o", "n", "e">>]}

\* the options callers pass; Defaulted is what readConfigFile substitutes when
\* it is given none
Defaulted == [parseIncludes |-> TRUE, ignoreIncludeErrors |-> FALSE]

CallOptions ==
  {Defaulted, [parseIncludes |-> TRUE, ignoreIncludeErrors |-> TRUE], NoIncludes}

\* dirname(fileName)
Dirname(f) == f.dir

\* Deno.stat(fileName).isFile
IsFile(f) == \E i \in 1..Len(FileSystem) : FileSystem[i].dir = f.dir /\ FileSystem[i].name = f.name

\* Deno.readTextFile(fileName)
ReadTextFile(f) ==
  FileSystem[CHOOSE i \in 1..Len(FileSystem) :
               FileSystem[i].dir = f.dir /\ FileSystem[i].name = f.name].text

\* str.replace(sub, '') : the first occurrence only
RemoveFirstSub(s, sub) ==
  LET at == {i \in 1..(Len(s) - Len(sub) + 1) : SubSeq(s, i, i + Len(sub) - 1) = sub}
  IN IF at = {} THEN s
     ELSE LET i == MinOf(at) IN SubSeq(s, 1, i - 1) \o SubSeq(s, i + Len(sub), Len(s))

\* a file name against a pattern whose `*` stands for any characters
GlobMatches(name, pattern) ==
  LET star == {i \in 1..Len(pattern) : pattern[i] = "*"}
  IN IF star = {} THEN name = pattern
     ELSE /\ Len(name) >= Len(pattern) - 1
          /\ StartsWith(name, SubSeq(pattern, 1, MinOf(star) - 1))
          /\ EndsWith(name, SubSeq(pattern, MinOf(star) + 1, Len(pattern)))

\* expandGlob(resolve(root, pattern)): the matching files, in directory order
ExpandGlob(root, pattern) ==
  LET found == SelectSeq(FileSystem,
                         LAMBDA f : f.dir = root /\ GlobMatches(f.name, pattern))
  IN [i \in 1..Len(found) |-> [dir |-> found[i].dir, name |-> found[i].name]]

\* handleInclude up to its first await: the pattern, and the promise it
\* returns, which is to append what it reads to object obj at path parent
\* (root is this.serverRoot, set by readConfigFile before any parse; chain
\* records the files being read when the directive was met, outermost first)
handleInclude(inc, obj, root, options, chain) ==
  LET pattern == Trim(RemoveFirst(RemoveFirstSub(inc.line, IncludeWord \o <<" ">>), ";"))
  IN [obj |-> obj, parent |-> inc.parent, root |-> root, line |-> inc.line,
      chain |-> chain,
      files |-> ExpandGlob(root, pattern),
      matched |-> Len(ExpandGlob(root, pattern)),
      ignoreIncludeErrors |-> options.ignoreIncludeErrors]

\* the promises started by one toJSON, none of them awaited
Started(scan, obj, root, options, chain) ==
  [i \in 1..Len(scan.includes) |->
     handleInclude(scan.includes[i], obj, root, options, chain)]

\* setFileName: the server root is taken from the first file name only
setFileName(root, f) == IF root = "null" THEN Dirname(f) ELSE root

\* for (const [key, val] of Object.entries(config)) appendValue(json, key, val, parent)
RECURSIVE AppendEntries(_, _, _)
AppendEntries(json, entries, parent) ==
  IF entries = <<>> THEN json
  ELSE AppendEntries(appendValue(json, entries[1].k, entries[1].v, parent).json,
                     Tail(entries), parent)

Init ==
  /\ serverRoot = "null"
  /\ fileName = "null"
  /\ heap = <<>>
  /\ calls = <<>>
  /\ tasks = <<>>
  /\ rejections = 0
  /\ ParseIdle
  /\ PathIdle
  /\ AppIdle
  /\ OpsIdle

\* an unhandled rejection ends the Deno process
Running == rejections = 0

\* readConfigFile(f, options) on the shared instance, the file missing:
\* Deno.stat rejects, after setFileName
ReadMissingFile ==
  /\ Running
  /\ Len(calls) < MaxCalls
  /\ \E f \in CallFiles, options \in CallOptions :
       /\ ~IsFile(f)
       /\ fileName' = f
       /\ serverRoot' = setFileName(serverRoot, f)
       /\ calls' = Append(calls, [file |-> f, options |-> options, outcome |-> "threw",
                                  obj |-> 0, returned |-> Undefined, started |-> <<>>])
  /\ UNCHANGED <<heap, tasks, rejections>>
  /\ UNCHANGED <<parseVars, pathVars, appVars, opsVars>>

\* readConfigFile(f, options) on the shared instance: setFileName, the file is
\* read, toJSON scans it and starts one promise per include directive, and
\* the tree is handed to the caller
ReadConfigFile ==
  /\ Running
  /\ Len(calls) < MaxCalls
  /\ \E f \in CallFiles, options \in CallOptions :
       /\ IsFile(f)
       /\ LET root == setFileName(serverRoot, f)
              scan == toJSONScan(ReadTextFile(f), options)
              obj == Len(heap) + 1
              started == Started(scan, obj, root, options, <<f>>)
          IN /\ fileName' = f
             /\ serverRoot' = root
             /\ heap' = Append(heap, scan.json)
             /\ tasks' = tasks \o started
             /\ calls' = Append(calls, [file |-> f, options |-> options,
                                        outcome |-> "returned", obj |-> obj,
                                        returned |-> scan.json, started |-> started])
  /\ UNCHANGED rejections
  /\ UNCHANGED <<parseVars, pathVars, appVars, opsVars>>

\* one iteration of `for (const file of files)` of a running handleInclude:
\* a new Parser with the same server root reads the file with the default
\* options (starting the promises of its own include directives), and the
\* top-level entries of its tree are appended at the including path; nothing
\* in the code ends a chain of includes, the model follows it MaxDepth deep
IncludeFile ==
  /\ Running
  /\ \E i \in 1..Len(tasks) :
       /\ tasks[i].files # <<>>
       /\ Len(tasks[i].chain) < MaxDepth
       /\ LET t == tasks[i]
              scan == toJSONScan(ReadTextFile(t.files[1]), Defaulted)
              obj == Len(heap) + 1
          IN /\ heap' = Append([heap EXCEPT ![t.obj] =
                                  AppendEntries(@, Entries(scan.json), t.parent)],
                               scan.json)
             /\ tasks' = [tasks EXCEPT ![i].files = Tail(@)]
                           \o Started(scan, obj, t.root, Defaulted,
                                      Append(t.chain, t.files[1]))
  /\ UNCHANGED <<serverRoot, fileName, calls, rejections>>
  /\ UNCHANGED <<parseVars, pathVars, appVars, opsVars>>

\* a handleInclude whose pattern matched files has read them all: its promise
\* is fulfilled
IncludeDone ==
  /\ Running
  /\ \E i \in 1..Len(tasks) :
       /\ tasks[i].files = <<>>
       /\ tasks[i].matched > 0 \/ tasks[i].ignoreIncludeErrors
       /\ tasks' = SubSeq(tasks, 1, i - 1) \o SubSeq(tasks, i + 1, Len(tasks))
  /\ UNCHANGED <<serverRoot, fileName, heap, calls, rejections>>
  /\ UNCHANGED <<parseVars, pathVars, appVars, opsVars>>

\* a handleInclude whose pattern matched nothing throws IncludeResolutionError:
\* its promise is rejected, and nobody holds it
IncludeUnresolved ==
  /\ Running
  /\ \E i \in 1..Len(tasks) :
       /\ tasks[i].files = <<>>
       /\ tasks[i].matched = 0 /\ ~tasks[i].ignoreIncludeErrors
       /\ tasks' = SubSeq(tasks, 1, i - 1) \o SubSeq(tasks, i + 1, Len(tasks))
  /\ rejections' = rejections + 1
  /\ UNCHANGED <<serverRoot, fileName, heap, calls>>
  /\ UNCHANGED <<parseVars, pathVars, appVars, opsVars>>

Next == ReadMissingFile \/ ReadConfigFile \/ IncludeFile \/ IncludeDone \/ IncludeUnresolved

Spec == Init /\ [][Next]_vars

----------------------------------------------------------------------------
(* Claims about include resolution, checked on Spec.                         *)

Main1 == [dir |-> "d1", name |-> <<"m", "a", "i", "n">>]
Site1 == [dir |-> "d1", name |-> <<"s", "i", "t", "e">>]
Miss1 == [dir |-> "d1", name |-> <<"m", "i", "s", "s">>]
Main2 == [dir |-> "d2", name |-> <<"m", "a", "i", "n">>]

\* the files an include directive of file f matches, resolved against the
\* directory of f
OwnMatches(f, line) ==
  ExpandGlob(Dirname(f),
             Trim(RemoveFirst(RemoveFirstSub(line, IncludeWord \o <<" ">>), ";")))

\* the tree of one included file
IncludedTree(f) == toJSON(ReadTextFile(f), Defaulted)

\* C4: a file that includes n >= 2 files each holding one `s` block, read with
\* include resolution enabled, yields a tree whose key `s` holds the n blocks
\* as a List in glob-match order.
C4_IncludeMerging ==
  \A i \in 1..Len(calls) :
    (/\ calls[i].outcome = "returned"
     /\ calls[i].options.parseIncludes
     /\ calls[i].file = Main1
     /\ Len(OwnMatches(Main1, ReadTextFile(Main1))) >= 2)
    => LET files == OwnMatches(Main1, ReadTextFile(Main1))
       IN Get(calls[i].returned, <<"s">>)
            = Arr([k \in 1..Len(files) |-> Get(IncludedTree(files[k]), <<"s">>)])

\* C5: when readConfigFile hands its tree back every include directive has
\* been resolved: no handleInclude is still to merge into that tree, the tree
\* is never changed afterwards, and an included entry precedes the same-key
\* siblings that follow the include directive in the source.
C5_IncludesResolvedAtReturn ==
  \A i \in 1..Len(calls) :
    calls[i].outcome = "returned"
    => /\ \A k \in 1..Len(tasks) : tasks[k].obj # calls[i].obj
       /\ heap[calls[i].obj] = calls[i].returned
       /\ (calls[i].file = Site1 /\ calls[i].options.parseIncludes
             /\ OwnMatches(Site1, <<"i", "n", "c", "l", "u", "d", "e", " ", "c", "*", ";">>) # <<>>)
          => LET s == Get(heap[calls[i].obj], <<"s">>)
             IN s.t = "L" /\ s.e[Len(s.e)] = Obj(<<[k |-> <<"a">>, v |-> Str(<<"2">>)]>>)

\* C6: an include pattern that matches no file makes the parse call fail with
\* IncludeResolutionError unless ignoreIncludeErrors is set; with it set the
\* call succeeds and the tree has no entry for the include.
C6_UnmatchedIncludeFails ==
  \A i \in 1..Len(calls) :
    (/\ calls[i].options.parseIncludes
     /\ IsFile(calls[i].file)
     /\ \E k \in 1..Len(calls[i].started) : calls[i].started[k].matched = 0)
    => IF calls[i].options.ignoreIncludeErrors
       THEN calls[i].outcome = "returned" /\ calls[i].returned = Obj(<<>>)
       ELSE calls[i].outcome = "threw"

\* C10: include patterns are resolved against the directory of the file
\* handed to this call, and the result of a call does not depend on earlier
\* calls on the same Parser.
C10_CallsIndependent ==
  /\ \A i \in 1..Len(calls) : \A k \in 1..Len(calls[i].started) :
       calls[i].started[k].root = Dirname(calls[i].file)
  /\ \A i, j \in 1..Len(calls) :
       (calls[i].file = calls[j].file /\ calls[i].options = calls[j].options)
       => /\ calls[i].outcome = calls[j].outcome
          /\ calls[i].returned = calls[j].returned
          /\ Len(calls[i].started) = Len(calls[j].started)
          /\ \A k \in 1..Len(calls[i].started) :
               calls[i].started[k].files = calls[j].started[k].files

Loop3 == [dir |-> "d3", name |-> <<"l", "o", "o", "p">>]
Ping4 == [dir |-> "d4", name |-> <<"p", "i", "n", "g">>]

\* C27: include processing has a visited-file guard: no file is read while it
\* is itself being read further up the chain of includes, so a chain is never
\* longer than the number of files and only finitely many parses are started.
C27_CyclicIncludesBounded ==
  \A k \in 1..Len(tasks) :
    \A i, j \in 1..Len(tasks[k].chain) :
      tasks[k].chain[i] = tasks[k].chain[j] => i = j

----------------------------------------------------------------------------
(* JavaScript values and strings used by the extractor and the generator    *)

\* a string literal of the source, as its characters
Chars(str) == [i \in 1..Len(str) |-> SubSeq(str, i, i)]

Bool(b) == [t |-> "T", s |-> <<>>, m |-> <<>>, e |-> <<>>, n |-> IF b THEN 1 ELSE 0]

\* if (v), !v, v && ..., v || ...
Truthy(v) ==
  IF v.t = "U" THEN FALSE
  ELSE IF v.t = "S" THEN v.s # <<>>
  ELSE IF v.t = "N" THEN v.n # 0 /\ v.s = <<>>
  ELSE IF v.t = "T" THEN v.n = 1
  ELSE TRUE

\* obj[name] / obj[name] = val with the property named by a literal
GetK(v, name) == Get(v, Chars(name))

PutK(v, name, val) == Put(v, Chars(name), val)

\* parts[i] of a JavaScript array of strings (i counted from 0)
PartAt(parts, i) == IF i + 1 <= Len(parts) THEN Str(parts[i + 1]) ELSE Undefined

StrArr(parts) == Arr([i \in 1..Len(parts) |-> Str(parts[i])])

RECURSIVE FoldLeft(_, _, _)
FoldLeft(Op(_, _), acc, seq) ==
  IF seq = <<>> THEN acc ELSE FoldLeft(Op, Op(acc, Head(seq)), Tail(seq))

\* the decimal digits of a natural number
RECURSIVE NatToChars(_)
NatToChars(n) ==
  IF n < 10 THEN <<Digits[n + 1]>> ELSE NatToChars(n \div 10) \o <<Digits[(n % 10) + 1]>>

\* parseInt(s): the number written by the leading digits of s
RECURSIVE DigitsToNat(_, _)
DigitsToNat(s, acc) ==
  IF s = <<>> \/ ~IsDigit(Head(s)) THEN acc
  ELSE DigitsToNat(Tail(s), 10 * acc + DigitVal(Head(s)))

\* (NaN, a number whose text is "NaN", when s does not start with a digit)
parseInt(s) ==
  IF s = <<>> \/ ~IsDigit(Head(s)) THEN [Num(0) EXCEPT !.s = Chars("NaN")]
  ELSE Num(DigitsToNat(s, 0))

\* s.match(/\d+/): the first run of digits of s, or null
FirstDigitRun(s) ==
  LET at == {i \in 1..Len(s) : IsDigit(s[i])}
  IN IF at = {} THEN Undefined
     ELSE LET i == MinOf(at)
              stop == {j \in i..Len(s) : ~IsDigit(s[j])}
          IN Str(SubSeq(s, i, IF stop = {} THEN Len(s) ELSE MinOf(stop) - 1))

\* s.includes(sub)
Includes(s, sub) ==
  \E i \in 1..(Len(s) - Len(sub) + 1) : SubSeq(s, i, i + Len(sub) - 1) = sub

----------------------------------------------------------------------------
(* The second parser: NginxParser (nginx2json)                              *)

\* if (key in result) { promote to an array; push } else result[key] = value
AddValue(result, key, value) ==
  IF HasKey(result.m, key) THEN
    LET old == Get(result, key)
    IN Put(result, key, Arr((IF old.t = "L" THEN old.e ELSE <<old>>) \o <<value>>))
  ELSE Put(result, key, value)

\* the while loop of parseBlock from position current (positions count from
\* 1 here), with the characters up to the next `{`, `}` or `;` pushed to the
\* buffer in one step; key is null whenever the loop reads a character
RECURSIVE parseBlockLoop(_, _, _)
parseBlockLoop(text, current, result) ==
  LET stops == {i \in current..Len(text) : text[i] \in {"{", "}", ";"}}
  IN IF stops = {} THEN [result |-> result, pos |-> Len(text) + 1]
     ELSE
       LET at == MinOf(stops)
           buffer == SubSeq(text, current, at - 1)
           value == Trim(buffer)
       IN IF text[at] = "{" THEN
            LET key == IF buffer # <<>> THEN value ELSE Chars("null")
                nested == parseBlockLoop(text, at + 1, Obj(<<>>))
            IN parseBlockLoop(text, nested.pos, AddValue(result, key, nested.result))
          ELSE IF text[at] = "}" THEN
            [result |-> IF value # <<>> THEN AddValue(result, Chars("_directives"), Str(value))
                        ELSE result,
             pos |-> at + 1]
          ELSE
            parseBlockLoop(text, at + 1,
                           IF value # <<>> THEN AddValue(result, Chars("_directives"), Str(value))
                           ELSE result)

parseBlock(text, start) == parseBlockLoop(text, start, Obj(<<>>))

\* NginxParser.parse: configText.replace(/#.*$/gm, '') cuts every line at its
\* first #, replace(/\s+/g, ' ') turns every run of whitespace into one space
NginxParser_parse(configText) ==
  LET lines == Split(configText, "\n")
      cut(l) == LET at == {i \in 1..Len(l) : l[i] = "#"}
                IN IF at = {} THEN l ELSE SubSeq(l, 1, MinOf(at) - 1)
      text == Join([i \in 1..Len(lines) |-> cut(lines[i])], <<"\n">>)
      keep == SelectSeq([i \in 1..Len(text) |-> i],
                        LAMBDA i : text[i] \notin WS \/ i = 1 \/ text[i - 1] \notin WS)
      normal == [k \in 1..Len(keep) |-> IF text[keep[k]] \in WS THEN " " ELSE text[keep[k]]]
  IN parseBlock(normal, 1).result

----------------------------------------------------------------------------
(* The extractor: NginxToJSON                                               *)
(* A call either returns a value or throws: [ok, v].                        *)

Returned(v) == [ok |-> TRUE, v |-> v]

\* a TypeError leaves the call
Threw == [ok |-> FALSE, v |-> Undefined]

\* the domain as it would be if the server name were taken whole
extractWholeServerName(serverName) == serverName

extractDomainFromServerName(serverName) == Split(serverName, " ")[1]

\* `_directives` as an array: Array.isArray(d) ? d : [d]
AsArray(v) == IF v.t = "L" THEN v.e ELSE <<v>>

\* if (!obj[name]) obj[name] = init;  obj[name][field] = val
SetIn(obj, name, init, field, val) ==
  LET sub == IF Truthy(GetK(obj, name)) THEN GetK(obj, name) ELSE init
  IN PutK(obj, name, PutK(sub, field, val))

\* an ssl block that names a certificate whatever the directives are
sslConfigWithCertificate(directives) ==
  PutK(Obj(<<>>), "certificate", Str(Chars("/etc/ssl/cert.pem")))

\* NginxToJSON.parseSSLConfig
parseSSLConfig(directives) ==
  LET SSLDirective(sslConfig, d) ==
        LET directive == d.s
            second == PartAt(Split(directive, " "), 1)
        IN IF StartsWith(directive, Chars("ssl_certificate ")) THEN
             PutK(sslConfig, "certificate", second)
           ELSE IF StartsWith(directive, Chars("ssl_certificate_key ")) THEN
             PutK(sslConfig, "certificateKey", second)
           ELSE IF StartsWith(directive, Chars("ssl_protocols ")) THEN
             PutK(sslConfig, "protocols", StrArr(Tail(Split(directive, " "))))
           ELSE IF StartsWith(directive, Chars("ssl_ciphers ")) THEN
             PutK(sslConfig, "ciphers", StrArr(Split(second.s, ":")))
           ELSE IF directive = Chars("ssl_prefer_server_ciphers on") THEN
             PutK(sslConfig, "preferServerCiphers", Bool(TRUE))
           ELSE IF StartsWith(directive, Chars("ssl_dhparam ")) THEN
             PutK(sslConfig, "dhParam", second)
           ELSE IF directive = Chars("ssl_stapling on") THEN
             PutK(sslConfig, "ocspStapling", Bool(TRUE))
           ELSE IF StartsWith(directive, Chars("ssl_session_timeout ")) THEN
             PutK(sslConfig, "sessionTimeout", second)
           ELSE sslConfig
  IN FoldLeft(SSLDirective, Obj(<<>>), directives)

\* one iteration of the loop of parseLocation
LocationDirective(location, d) ==
  LET directive == d.s
      parts == Split(directive, " ")
      enabled == Obj(<<[k |-> Chars("enabled"), v |-> Bool(TRUE)]>>)
      starts(word) == StartsWith(directive, Chars(word))
      \* the body of `for (const part of parts.slice(1))` of the limit_req branch
      RateLimitPart(loc, part) ==
        IF StartsWith(part, Chars("rate=")) THEN
          SetIn(loc, "rateLimit", Obj(<<>>), "rate", Str(SubSeq(part, 6, Len(part))))
        ELSE IF StartsWith(part, Chars("burst=")) THEN
          SetIn(loc, "rateLimit", Obj(<<>>), "burstSize", parseInt(SubSeq(part, 7, Len(part))))
        ELSE IF part = Chars("nodelay") THEN
          SetIn(loc, "rateLimit", Obj(<<>>), "nodelay", Bool(TRUE))
        ELSE loc
      \* parts[parts.length - 1].replace(/['"]/g, '')
      last == SelectSeq(parts[Len(parts)], LAMBDA c : c \notin {"'", "\""})
      \* last.split(',').map(x => x.trim())
      lastList == StrArr([i \in 1..Len(Split(last, ",")) |-> Trim(Split(last, ",")[i])])
  IN IF starts("root ") THEN PutK(location, "root", PartAt(parts, 1))
     ELSE IF starts("index ") THEN PutK(location, "index", Str(Join(Tail(parts), <<" ">>)))
     ELSE IF starts("try_files ") THEN
       PutK(location, "try_files", Str(Join(Tail(parts), <<" ">>)))
     ELSE IF starts("proxy_pass ") THEN PutK(location, "proxyPass", PartAt(parts, 1))
     ELSE IF starts("fastcgi_pass ") THEN
       SetIn(location, "php", enabled, "socketPath", PartAt(parts, 1))
     ELSE IF starts("proxy_cache_valid ") THEN
       SetIn(location, "cache", enabled, "validTime", PartAt(parts, 1))
     ELSE IF starts("proxy_cache_key ") THEN
       SetIn(location, "cache", enabled, "keys", StrArr(Tail(parts)))
     ELSE IF starts("proxy_cache_use_stale ") THEN
       SetIn(location, "cache", enabled, "useStale", StrArr(Tail(parts)))
     ELSE IF starts("limit_req ") THEN
       FoldLeft(RateLimitPart,
                IF Truthy(GetK(location, "rateLimit")) THEN location
                ELSE PutK(location, "rateLimit", Obj(<<>>)),
                Tail(parts))
     ELSE IF starts("add_header Access-Control-") THEN
       LET withCors == IF Truthy(GetK(location, "cors")) THEN location
                       ELSE PutK(location, "cors", enabled)
       IN IF Includes(directive, Chars("Allow-Origin")) THEN
            SetIn(withCors, "cors", enabled, "origins", Arr(<<Str(last)>>))
          ELSE IF Includes(directive, Chars("Allow-Methods")) THEN
            SetIn(withCors, "cors", enabled, "methods", lastList)
          ELSE IF Includes(directive, Chars("Allow-Headers")) THEN
            SetIn(withCors, "cors", enabled, "headers", lastList)
          ELSE IF Includes(directive, Chars("Allow-Credentials")) THEN
            SetIn(withCors, "cors", enabled, "credentials", Bool(last = Chars("true")))
          ELSE withCors
     ELSE IF starts("expires") \/ starts("add_header") \/ starts("access_log") THEN
       PutK(location, "extraDirectives",
            Arr((IF Truthy(GetK(location, "extraDirectives"))
                 THEN GetK(location, "extraDirectives").e ELSE <<>>) \o <<d>>))
     ELSE location

\* NginxToJSON.parseLocation: (locationData.location as string).split throws
\* unless locationData.location is a string
parseLocation(locationData) ==
  IF GetK(locationData, "location").t # "S" THEN Threw
  ELSE
    LET location == PutK(Obj(<<>>), "path",
                         Str(Split(GetK(locationData, "location").s, " ")[1]))
    IN IF ~Truthy(Get(locationData, Chars("_directives"))) THEN Returned(location)
       ELSE Returned(FoldLeft(LocationDirective, location,
                              AsArray(Get(locationData, Chars("_directives")))))

\* one iteration of the first loop of parseServer; parts[1].match(/\d+/)![0]
\* throws when the first argument of listen holds no digit
ServerDirective(acc, d) ==
  LET directive == d.s
      parts == Split(directive, " ")
      config == acc.v
  IN IF ~acc.ok THEN acc
     ELSE IF StartsWith(directive, Chars("server_name ")) THEN
       LET serverName == Join(Tail(parts), <<" ">>)
       IN Returned(PutK(PutK(config, "serverName", Str(serverName)),
                        "domain", Str(extractDomainFromServerName(serverName))))
     ELSE IF StartsWith(directive, Chars("listen ")) THEN
       IF FirstDigitRun(parts[2]).t = "U" THEN Threw
       ELSE
         LET withPort == PutK(config, "port", parseInt(FirstDigitRun(parts[2]).s))
         IN Returned(IF (\E i \in 1..Len(parts) : parts[i] = Chars("ssl"))
                        /\ ~Truthy(GetK(withPort, "ssl"))
                     THEN PutK(withPort, "ssl", Obj(<<>>)) ELSE withPort)
     ELSE IF StartsWith(directive, Chars("client_max_body_size ")) THEN
       Returned(PutK(config, "clientMaxBodySize", PartAt(parts, 1)))
     ELSE IF directive = Chars("gzip on") THEN Returned(PutK(config, "gzip", Bool(TRUE)))
     ELSE IF StartsWith(directive, Chars("gzip_types ")) THEN
       Returned(PutK(config, "gzipTypes", StrArr(Tail(parts))))
     ELSE acc

\* one iteration of the security-header loop of parseServer
SecurityDirective(securityHeaders, d) ==
  LET parts == Split(d.s, " ")
      header == PartAt(parts, 1)
      joined == Join(SubSeq(parts, 3, Len(parts)), <<" ">>)
      unended == IF joined # <<>> /\ joined[Len(joined)] = ";"
                 THEN SubSeq(joined, 1, Len(joined) - 1) ELSE joined
      \* .replace(/^["']|["']$/g, ''): a leading and a trailing quote are removed
      unquoted == IF unended # <<>> /\ unended[1] \in {"'", "\""} THEN Tail(unended)
                  ELSE unended
      value == IF unquoted # <<>> /\ unquoted[Len(unquoted)] \in {"'", "\""}
               THEN SubSeq(unquoted, 1, Len(unquoted) - 1) ELSE unquoted
      policies == Split(value, ";")
  IN IF ~StartsWith(d.s, Chars("add_header ")) THEN securityHeaders
     ELSE IF header = Str(Chars("X-Frame-Options")) THEN
       PutK(securityHeaders, "xFrameOptions", Str(value))
     ELSE IF header = Str(Chars("X-Content-Type-Options")) THEN
       PutK(securityHeaders, "xContentTypeOptions", Bool(TRUE))
     ELSE IF header = Str(Chars("X-XSS-Protection")) THEN
       PutK(securityHeaders, "xXSSProtection", Bool(TRUE))
     ELSE IF header = Str(Chars("Referrer-Policy")) THEN
       PutK(securityHeaders, "referrerPolicy", Str(value))
     ELSE IF header = Str(Chars("Content-Security-Policy")) THEN
       PutK(securityHeaders, "contentSecurityPolicy",
            StrArr([i \in 1..Len(policies) |-> Trim(policies[i])]))
     ELSE securityHeaders

\* NginxToJSON.parseServer
parseServer(serverData) ==
  LET directives == AsArray(Get(serverData, Chars("_directives")))
      sslDirectives == SelectSeq(directives, LAMBDA d : StartsWith(d.s, Chars("ssl_")))
      \* locations.map(loc => this.parseLocation(loc))
      MapLocations(acc, loc) ==
        LET Push(location) == IF ~acc.ok \/ ~location.ok THEN Threw
                              ELSE Returned(Arr(acc.v.e \o <<location.v>>))
        IN Push(parseLocation(loc))
      \* the statements after the first loop
      Rest(config, securityHeaders, locations) ==
        LET WithSecurity(withSsl) ==
              IF securityHeaders.m # <<>> THEN PutK(withSsl, "security", securityHeaders)
              ELSE withSsl
            WithLocations(withSecurity) ==
              IF ~HasKey(serverData.m, Chars("location")) THEN Returned(withSecurity)
              ELSE IF ~locations.ok THEN Threw
              ELSE Returned(PutK(withSecurity, "locations", locations.v))
        IN IF ~config.ok THEN Threw
           ELSE WithLocations(WithSecurity(
                  IF sslDirectives # <<>>
                  THEN PutK(config.v, "ssl", parseSSLConfig(sslDirectives)) ELSE config.v))
  IN IF ~Truthy(Get(serverData, Chars("_directives"))) THEN Returned(Obj(<<>>))
     ELSE Rest(FoldLeft(ServerDirective, Returned(Obj(<<>>)), directives),
               FoldLeft(SecurityDirective, Obj(<<>>), directives),
               FoldLeft(MapLocations, Returned(Arr(<<>>)),
                        AsArray(GetK(serverData, "location"))))

\* NginxToJSON.convert
convert(nginxConfig) ==
  LET \* servers.map(server => this.parseServer(server))
      MapServers(acc, server) ==
        LET Push(config) == IF ~acc.ok \/ ~config.ok THEN Threw
                            ELSE Returned(Arr(acc.v.e \o <<config.v>>))
        IN Push(parseServer(server))
      Servers(parsed) ==
        LET Result(configs) == IF ~configs.ok THEN Threw
                               ELSE IF Len(configs.v.e) = 1 THEN Returned(configs.v.e[1])
                               ELSE configs
        IN IF ~HasKey(parsed.m, Chars("server")) THEN Returned(Obj(<<>>))
           ELSE Result(FoldLeft(MapServers, Returned(Arr(<<>>)),
                                AsArray(GetK(parsed, "server"))))
  IN Servers(NginxParser_parse(nginxConfig))

----------------------------------------------------------------------------
(* The generator: generateNginxConfig                                       *)

\* `${v}` in a template literal
Template(v) ==
  IF v.t = "S" THEN v.s
  ELSE IF v.t = "N" THEN (IF v.s # <<>> THEN v.s ELSE NatToChars(v.n))
  ELSE IF v.t = "T" THEN (IF v.n = 1 THEN Chars("true") ELSE Chars("false"))
  ELSE IF v.t = "U" THEN Chars("undefined")
  ELSE IF v.t = "L" THEN Join([i \in 1..Len(v.e) |-> IF v.e[i].t = "S" THEN v.e[i].s ELSE <<>>],
                              <<",">>)
  ELSE Chars("[object Object]")

\* arr.join(sep) of an array of strings
JoinArr(arr, sep) == Join([i \in 1..Len(arr.e) |-> Template(arr.e[i])], Chars(sep))

\* text added only if (cond)
When(cond, text) == IF cond THEN text ELSE <<>>

\* for (const [name, servers] of Object.entries(config.upstreams))
UpstreamsText(config) ==
  LET pools == Entries(GetK(config, "upstreams"))
      \* the body of servers.forEach
      UpstreamServerText(server) ==
        Concat(<<Chars("    server "), Template(GetK(server, "address")),
                 When(Truthy(GetK(server, "weight")),
                      Chars(" weight=") \o Template(GetK(server, "weight"))),
                 When(Truthy(GetK(server, "maxFails")),
                      Chars(" max_fails=") \o Template(GetK(server, "maxFails"))),
                 When(Truthy(GetK(server, "failTimeout")),
                      Chars(" fail_timeout=") \o Template(GetK(server, "failTimeout"))),
                 Chars(";\n")>>)
  IN Concat([i \in 1..Len(pools) |->
       Concat(<<Chars("upstream "), pools[i].k, Chars(" {\n"),
                Concat([j \in 1..Len(pools[i].v.e) |-> UpstreamServerText(pools[i].v.e[j])]),
                Chars("}\n\n")>>)])

\* a redirect block written for every schema that has an ssl block
RedirectIfSsl(config) ==
  When(Truthy(GetK(config, "ssl")),
       Concat(<<Chars("server {\n    listen 80;\n    server_name "),
                Template(GetK(config, "serverName")),
                Chars(";\n    return 301 https://$server_name$request_uri;\n}\n\n")>>))

\* if (config.ssl?.forceRedirect) nginxConfig += `server { listen 80; ... }`
RedirectText(config) ==
  When(Truthy(GetK(GetK(config, "ssl"), "forceRedirect")),
       Concat(<<Chars("server {\n    listen 80;\n    server_name "),
                Template(GetK(config, "serverName")),
                Chars(";\n    return 301 https://$server_name$request_uri;\n}\n\n")>>))

\* the three (four) CORS headers, as the microservice branch pushes them and
\* as the location branch writes them
CorsHeaders(cors) ==
  LET \* arr?.join(' ') || fallback
      JoinOr(arr, fallback) ==
        IF arr.t = "L" /\ JoinArr(arr, " ") # <<>> THEN JoinArr(arr, " ") ELSE Chars(fallback)
  IN
  <<Chars("add_header 'Access-Control-Allow-Origin' '")
      \o JoinOr(GetK(cors, "origins"), "*") \o Chars("'"),
    Chars("add_header 'Access-Control-Allow-Methods' '")
      \o JoinOr(GetK(cors, "methods"), "GET, POST, OPTIONS") \o Chars("'"),
    Chars("add_header 'Access-Control-Allow-Headers' '")
      \o JoinOr(GetK(cors, "headers"),
                "DNT,X-CustomHeader,Keep-Alive,User-Agent,X-Requested-With,If-Modified-Since,Cache-Control,Content-Type")
      \o Chars("'")>>
  \o (IF Truthy(GetK(cors, "credentials"))
      THEN <<Chars("add_header 'Access-Control-Allow-Credentials' 'true'")>> ELSE <<>>)

\* config.microservices.forEach(ms => { ...; config.locations.push(location) }):
\* the schema object afterwards
WithMicroservices(config) ==
  LET routes == GetK(config, "microservices").e
      \* const location = {path, proxyPass, extraDirectives: []} and the pushes
      MicroserviceLocation(ms) ==
        LET extra ==
              (IF Truthy(GetK(ms, "rewrite"))
               THEN <<Chars("rewrite ") \o Template(GetK(ms, "rewrite"))>> ELSE <<>>)
              \o (IF Truthy(GetK(ms, "stripPath"))
                  THEN <<Chars("rewrite ^/[^/]+/(.*) /$1 break")>> ELSE <<>>)
              \o (IF Truthy(GetK(ms, "methods"))
                  THEN <<Chars("limit_except ") \o JoinArr(GetK(ms, "methods"), " ")
                           \o Chars(" { deny all; }")>> ELSE <<>>)
              \o (IF Truthy(GetK(GetK(ms, "cors"), "enabled"))
                  THEN CorsHeaders(GetK(ms, "cors")) ELSE <<>>)
        IN Obj(<<[k |-> Chars("path"), v |-> GetK(ms, "path")],
                 [k |-> Chars("proxyPass"), v |-> Str(Chars("http://") \o Template(GetK(ms, "upstream")))],
                 [k |-> Chars("extraDirectives"), v |-> StrArr(extra)]>>)
  IN PutK(config, "locations",
          Arr(GetK(config, "locations").e
              \o [i \in 1..Len(routes) |-> MicroserviceLocation(routes[i])]))

\* one `        <words>;\n` line of a location block
Clause(words) == Chars("        ") \o words \o Chars(";\n")

\* the callback of config.locations.map: the pieces it appends to
\* locationConfig, in the order of its statements (the opening line in three
\* pieces, then the clause groups, then the closing line)
LocationClauses(loc) ==
  LET websocket == GetK(loc, "websocket")
      php == GetK(loc, "php")
      cache == GetK(loc, "cache")
      rateLimit == GetK(loc, "rateLimit")
      extraParams == Entries(GetK(php, "extraParams"))
      extra == GetK(loc, "extraDirectives")
      cacheList(field, word) ==
        When(Truthy(GetK(cache, field)),
             Clause(Chars(word) \o Chars(" ") \o JoinArr(GetK(cache, field), " ")))
      cors == CorsHeaders(GetK(loc, "cors"))
  IN <<Chars("    location "), Template(GetK(loc, "path")), Chars(" {\n"),
       When(Truthy(GetK(loc, "proxyPass")),
            Concat(<<Clause(Chars("proxy_pass ") \o Template(GetK(loc, "proxyPass"))),
                     Clause(Chars("proxy_set_header Host $host")),
                     Clause(Chars("proxy_set_header X-Real-IP $remote_addr")),
                     Clause(Chars("proxy_set_header X-Forwarded-For $proxy_add_x_forwarded_for")),
                     Clause(Chars("proxy_set_header X-Forwarded-Proto $scheme"))>>)),
       When(Truthy(GetK(websocket, "enabled")),
            Concat(<<Clause(Chars("proxy_http_version 1.1")),
                     Clause(Chars("proxy_set_header Upgrade $http_upgrade")),
                     Clause(Chars("proxy_set_header Connection \"upgrade\"")),
                     When(Truthy(GetK(websocket, "timeout")),
                          Clause(Chars("proxy_read_timeout ")
                                 \o Template(GetK(websocket, "timeout")) \o Chars("s"))),
                     When(Truthy(GetK(websocket, "keepaliveTimeout")),
                          Clause(Chars("proxy_send_timeout ")
                                 \o Template(GetK(websocket, "keepaliveTimeout")) \o Chars("s"))
                          \o Clause(Chars("proxy_read_timeout ")
                                 \o Template(GetK(websocket, "keepaliveTimeout")) \o Chars("s")))>>)),
       When(Truthy(GetK(loc, "root")), Clause(Chars("root ") \o Template(GetK(loc, "root")))),
       When(Truthy(GetK(loc, "index")), Clause(Chars("index ") \o Template(GetK(loc, "index")))),
       When(Truthy(GetK(loc, "try_files")),
            Clause(Chars("try_files ") \o Template(GetK(loc, "try_files")))),
       When(Truthy(GetK(php, "enabled")),
            Concat(<<Clause(Chars("fastcgi_pass ")
                            \o (IF Truthy(GetK(php, "socketPath"))
                                THEN Template(GetK(php, "socketPath"))
                                ELSE Chars("unix:/var/run/php/php-fpm.sock"))),
                     Clause(Chars("fastcgi_index index.php")),
                     Clause(Chars("include fastcgi_params")),
                     Concat([i \in 1..Len(extraParams) |->
                       Clause(Chars("fastcgi_param ") \o extraParams[i].k \o Chars(" ")
                              \o Template(extraParams[i].v))])>>)),
       When(Truthy(GetK(cache, "enabled")),
            Concat(<<Clause(Chars("proxy_cache_valid ")
                            \o (IF Truthy(GetK(cache, "validTime"))
                                THEN Template(GetK(cache, "validTime")) ELSE Chars("60m"))),
                     cacheList("keys", "proxy_cache_key"),
                     cacheList("useStale", "proxy_cache_use_stale"),
                     When(Truthy(GetK(cache, "minUses")),
                          Clause(Chars("proxy_cache_min_uses ") \o Template(GetK(cache, "minUses")))),
                     cacheList("bypass", "proxy_cache_bypass"),
                     cacheList("noCache", "proxy_no_cache"),
                     cacheList("methods", "proxy_cache_methods")>>)),
       When(Truthy(GetK(GetK(loc, "cors"), "enabled")),
            Concat([i \in 1..Len(cors) |-> Clause(cors[i])])),
       When(Truthy(rateLimit),
            Concat(<<Chars("        limit_req zone=one rate="), Template(GetK(rateLimit, "rate")),
                     When(Truthy(GetK(rateLimit, "burstSize")),
                          Chars(" burst=") \o Template(GetK(rateLimit, "burstSize"))
                          \o When(Truthy(GetK(rateLimit, "nodelay")), Chars(" nodelay"))),
                     Chars(";\n")>>)),
       When(Truthy(extra), Concat([i \in 1..Len(extra.e) |-> Clause(Template(extra.e[i]))])),
       Chars("    }\n")>>

\* the pieces in the order proxy, root, PHP, WebSocket, cache, CORS, rate limit
LocationTextRootFirst(loc) ==
  LET Reordered(c) == <<c[1], c[2], c[3], c[4], c[6], c[7], c[8], c[9], c[5],
                        c[10], c[11], c[12], c[13], c[14]>>
  IN Concat(Reordered(LocationClauses(loc)))

\* the callback of config.locations.map
LocationText(loc) == Concat(LocationClauses(loc))

\* one `\n    <words>;` directive of the server block
ServerClause(words) == Chars("\n    ") \o words \o Chars(";")

\* the main server block up to its locations
ServerText(config) ==
  LET ssl == GetK(config, "ssl")
      \* if (config.ssl) { ... }
      SslText(sslBlock) ==
        LET hsts == GetK(sslBlock, "hsts")
        IN Concat(<<
             ServerClause(Chars("ssl_certificate ") \o Template(GetK(sslBlock, "certificate"))),
             ServerClause(Chars("ssl_certificate_key ") \o Template(GetK(sslBlock, "certificateKey"))),
             When(Truthy(GetK(sslBlock, "protocols")),
                  ServerClause(Chars("ssl_protocols ") \o JoinArr(GetK(sslBlock, "protocols"), " "))),
             When(Truthy(GetK(sslBlock, "ciphers")),
                  ServerClause(Chars("ssl_ciphers ") \o JoinArr(GetK(sslBlock, "ciphers"), ":"))),
             When(Truthy(GetK(sslBlock, "preferServerCiphers")),
                  ServerClause(Chars("ssl_prefer_server_ciphers on"))),
             When(Truthy(GetK(sslBlock, "dhParam")),
                  ServerClause(Chars("ssl_dhparam ") \o Template(GetK(sslBlock, "dhParam")))),
             When(Truthy(GetK(sslBlock, "ocspStapling")),
                  ServerClause(Chars("ssl_stapling on")) \o ServerClause(Chars("ssl_stapling_verify on"))),
             When(Truthy(GetK(sslBlock, "sessionTimeout")),
                  ServerClause(Chars("ssl_session_timeout ") \o Template(GetK(sslBlock, "sessionTimeout")))),
             When(GetK(sslBlock, "sessionTickets") = Bool(FALSE),
                  ServerClause(Chars("ssl_session_tickets off"))),
             When(Truthy(GetK(hsts, "enabled")),
                  Concat(<<Chars("\n    add_header Strict-Transport-Security \"max-age="),
                           (IF Truthy(GetK(hsts, "maxAge")) THEN Template(GetK(hsts, "maxAge"))
                            ELSE NatToChars(31536000)),
                           When(Truthy(GetK(hsts, "includeSubdomains")), Chars("; includeSubDomains")),
                           When(Truthy(GetK(hsts, "preload")), Chars("; preload")),
                           Chars("\";")>>))>>)
      security == GetK(config, "security")
      header(field, name, value) ==
        When(Truthy(GetK(security, field)),
             ServerClause(Chars("add_header ") \o Chars(name) \o Chars(" \"") \o value
                          \o Chars("\"")))
  IN Concat(<<
       Chars("server {\n    listen "), Template(GetK(config, "port")),
       When(Truthy(ssl), Chars(" ssl")),
       Chars(";\n    server_name "), Template(GetK(config, "serverName")), Chars(";\n"),
       When(Truthy(ssl), SslText(ssl)),
       When(Truthy(security),
            Concat(<<header("xFrameOptions", "X-Frame-Options",
                            Template(GetK(security, "xFrameOptions"))),
                     header("xContentTypeOptions", "X-Content-Type-Options", Chars("nosniff")),
                     header("xXSSProtection", "X-XSS-Protection", Chars("1; mode=block")),
                     header("referrerPolicy", "Referrer-Policy",
                            Template(GetK(security, "referrerPolicy"))),
                     When(Truthy(GetK(security, "contentSecurityPolicy")),
                          ServerClause(Chars("add_header Content-Security-Policy \"")
                            \o JoinArr(GetK(security, "contentSecurityPolicy"), "; ")
                            \o Chars("\"")))>>)),
       When(Truthy(GetK(config, "clientMaxBodySize")),
            ServerClause(Chars("client_max_body_size ")
                         \o Template(GetK(config, "clientMaxBodySize")))),
       When(Truthy(GetK(config, "gzip")),
            ServerClause(Chars("gzip on"))
            \o ServerClause(Chars("gzip_types ")
                 \o (IF Truthy(GetK(config, "gzipTypes")) THEN JoinArr(GetK(config, "gzipTypes"), " ")
                     ELSE Chars("text/plain text/css application/json application/javascript text/xml application/xml application/xml+rss text/javascript"))))>>)

\* generateNginxConfig(config): what it does ([ok, v], v the text) and the
\* schema object afterwards; config.locations.push / .map throw a TypeError
\* when the schema has no locations array
generateNginxConfig(config) ==
  LET after == IF Truthy(GetK(config, "microservices"))
                  /\ GetK(config, "microservices").e # <<>>
               THEN WithMicroservices(config) ELSE config
      locs == GetK(after, "locations").e
      locations == Join([i \in 1..Len(locs) |-> LocationText(locs[i])], <<"\n">>)
  IN IF GetK(config, "locations").t # "L" THEN [ok |-> FALSE, v |-> Undefined, config |-> config]
     ELSE [ok |-> TRUE,
           v |-> Str(Concat(<<When(Truthy(GetK(config, "upstreams")), UpstreamsText(config)),
                              RedirectText(config), ServerText(after),
                              Chars("\n\n"), locations, Chars("}")>>)),
           config |-> after]

----------------------------------------------------------------------------
(* SpecGen: generateNginxConfig called up to MaxGenCalls times on one       *)
(* schema object.                                                           *)

MaxGenCalls == 2

\* an object literal: its properties, in the order written
Rec(fields) == Obj([i \in 1..Len(fields) |-> [k |-> Chars(fields[i][1]), v |-> fields[i][2]]])

S(str) == Str(Chars(str))

List(strs) == Arr([i \in 1..Len(strs) |-> S(strs[i])])

\* the schemas handed to the generator
Schemas ==
  LET \* the optional parts of a schema (types.ts), each as the properties it adds
      UpstreamsChoices ==
        {<<>>,
         <<<<"upstreams", Rec(<<<<"u", Arr(<<Rec(<<<<"address", S("h:1")>>, <<"weight", Num(2)>>>>)>>)>>>>)>>>>,
         <<<<"upstreams",
             Rec(<<<<"u", Arr(<<Rec(<<<<"address", S("h:1")>>>>),
                                Rec(<<<<"address", S("h:2")>>, <<"maxFails", Num(3)>>,
                                      <<"failTimeout", S("5s")>>>>)>>)>>,
                   <<"v", Arr(<<Rec(<<<<"address", S("h:3")>>>>)>>)>>>>)>>>>}

      SslChoices ==
        {<<>>,
         <<<<"ssl", Rec(<<<<"protocols", List(<<"TLSv1.3">>)>>>>)>>>>,
         <<<<"ssl", Rec(<<<<"certificate", S("/c")>>, <<"certificateKey", S("/k")>>>>)>>>>,
         <<<<"ssl", Rec(<<<<"certificate", S("/c")>>, <<"certificateKey", S("/k")>>,
                          <<"forceRedirect", Bool(TRUE)>>>>)>>>>,
         <<<<"ssl", Rec(<<<<"certificate", S("/c")>>, <<"certificateKey", S("/k")>>,
                          <<"forceRedirect", Bool(FALSE)>>,
                          <<"protocols", List(<<"TLSv1.2", "TLSv1.3">>)>>,
                          <<"sessionTickets", Bool(FALSE)>>,
                          <<"hsts", Rec(<<<<"enabled", Bool(TRUE)>>, <<"preload", Bool(TRUE)>>>>)>>>>)>>>>}

      MicroservicesChoices ==
        {<<>>,
         <<<<"microservices", Arr(<<Rec(<<<<"path", S("/m")>>, <<"upstream", S("u")>>>>)>>)>>>>,
         <<<<"microservices",
             Arr(<<Rec(<<<<"path", S("/m")>>, <<"upstream", S("u")>>, <<"stripPath", Bool(TRUE)>>,
                         <<"methods", List(<<"GET", "POST">>)>>,
                         <<"cors", Rec(<<<<"enabled", Bool(TRUE)>>, <<"credentials", Bool(TRUE)>>>>)>>>>),
                   Rec(<<<<"path", S("/n")>>, <<"upstream", S("v")>>, <<"rewrite", S("^/n /x")>>>>)>>)>>>>}

      LocationsChoices ==
        {Arr(<<>>),
         Arr(<<Rec(<<<<"path", S("/w")>>, <<"root", S("/r")>>,
                     <<"websocket", Rec(<<<<"enabled", Bool(TRUE)>>,
                                          <<"keepaliveTimeout", Num(5)>>>>)>>,
                     <<"php", Rec(<<<<"enabled", Bool(TRUE)>>>>)>>>>)>>),
         Arr(<<Rec(<<<<"path", S("/")>>, <<"root", S("/r")>>, <<"index", S("i.html")>>>>)>>),
         Arr(<<Rec(<<<<"path", S("/")>>, <<"proxyPass", S("http://u")>>,
                     <<"websocket", Rec(<<<<"enabled", Bool(TRUE)>>, <<"timeout", Num(9)>>>>)>>,
                     <<"extraDirectives", List(<<"expires 30d">>)>>>>),
               Rec(<<<<"path", S("/p")>>, <<"try_files", S("$uri =404")>>,
                     <<"php", Rec(<<<<"enabled", Bool(TRUE)>>,
                                    <<"extraParams", Rec(<<<<"A", S("b")>>>>)>>>>)>>,
                     <<"cache", Rec(<<<<"enabled", Bool(TRUE)>>, <<"keys", List(<<"$uri">>)>>>>)>>,
                     <<"rateLimit", Rec(<<<<"rate", S("1r/s")>>, <<"burstSize", Num(5)>>,
                                          <<"nodelay", Bool(TRUE)>>>>)>>,
                     <<"cors", Rec(<<<<"enabled", Bool(TRUE)>>>>)>>>>)>>)}

      ServerChoices ==
        {<<>>,
         <<<<"gzip", Bool(TRUE)>>, <<"clientMaxBodySize", S("1M")>>,
           <<"security", Rec(<<<<"xFrameOptions", S("DENY")>>,
                               <<"xContentTypeOptions", Bool(TRUE)>>>>)>>>>}
  IN
  {Rec(<<<<"domain", S("a.io")>>, <<"serverName", S("a.io www.a.io")>>, <<"port", Num(443)>>>>
       \o s \o x \o u \o m \o <<<<"locations", l>>>>) :
     u \in UpstreamsChoices, s \in SslChoices, m \in MicroservicesChoices,
     l \in LocationsChoices, x \in ServerChoices}

InitGen ==
  /\ given \in Schemas
  /\ schema = given
  /\ texts = <<>>
  /\ input = <<>>
  /\ extracted = [ok |-> FALSE, v |-> Undefined]
  /\ regenerated = [ok |-> FALSE, v |-> Undefined]
  /\ xpc = "off"
  /\ responses = <<>>
  /\ written = <<>>
  /\ ParseIdle
  /\ PathIdle
  /\ SvcIdle
  /\ OpsIdle

\* one more call generateNginxConfig(schema) on the same object
Generate ==
  /\ Len(texts) < MaxGenCalls
  /\ LET call == generateNginxConfig(schema)
     IN /\ texts' = Append(texts, [ok |-> call.ok, v |-> call.v])
        /\ schema' = call.config
  /\ UNCHANGED <<given, input, extracted, regenerated, xpc, responses, written>>
  /\ UNCHANGED <<parseVars, pathVars, svcVars, opsVars>>

NextGen == Generate

SpecGen == InitGen /\ [][NextGen]_vars

----------------------------------------------------------------------------
(* Claims about the generator, checked on SpecGen.                          *)

\* the blocks at brace depth 0 of a text, each with the text before its `{`
\* (since the previous top-level block) and the text between its braces
RECURSIVE TopBlocksFrom(_, _, _, _, _, _)
TopBlocksFrom(text, pos, depth, from, open, acc) ==
  LET braces == {i \in pos..Len(text) : text[i] \in {"{", "}"}}
  IN IF braces = {} THEN acc
     ELSE LET at == MinOf(braces)
          IN IF text[at] = "{" THEN
               TopBlocksFrom(text, at + 1, depth + 1, from, IF depth = 0 THEN at ELSE open, acc)
             ELSE IF depth = 1 THEN
               TopBlocksFrom(text, at + 1, 0, at + 1, 0,
                             Append(acc, [header |-> Trim(SubSeq(text, from, open - 1)),
                                          body |-> SubSeq(text, open + 1, at - 1)]))
             ELSE TopBlocksFrom(text, at + 1, depth - 1, from, open, acc)

TopBlocks(text) == TopBlocksFrom(text, 1, 0, 1, 0, <<>>)

\* the non-empty lines of a block body, trimmed
BodyLines(body) ==
  LET lines == Split(body, "\n")
  IN SelectSeq([i \in 1..Len(lines) |-> Trim(lines[i])], LAMBDA l : l # <<>>)

\* number of occurrences of sub in s
CountSub(s, sub) ==
  Cardinality({i \in 1..(Len(s) - Len(sub) + 1) : SubSeq(s, i, i + Len(sub) - 1) = sub})

\* what C11 says of one returned text, for the schema handed in
InClaimedOrder(text, config) ==
  LET blocks == TopBlocks(text)
      pools == Entries(GetK(config, "upstreams"))
      nPools == Len(pools)
      redirect == Truthy(GetK(GetK(config, "ssl"), "forceRedirect"))
      nRedirect == IF redirect THEN 1 ELSE 0
  IN /\ Len(blocks) = nPools + nRedirect + 1
     /\ text[Len(text)] = "}"
     /\ \A i \in 1..nPools :
          /\ blocks[i].header = Chars("upstream ") \o pools[i].k
          /\ Len(BodyLines(blocks[i].body)) = Len(pools[i].v.e)
          /\ \A j \in 1..Len(pools[i].v.e) :
               LET line == BodyLines(blocks[i].body)[j]
                   start == Chars("server ") \o GetK(pools[i].v.e[j], "address").s
               IN StartsWith(line, start) /\ line[Len(start) + 1] \in {" ", ";"}
     /\ redirect => /\ blocks[nPools + 1].header = Chars("server")
                    /\ BodyLines(blocks[nPools + 1].body)
                         = <<Chars("listen 80;"),
                             Chars("server_name ") \o GetK(config, "serverName").s \o <<";">>,
                             Chars("return 301 https://$server_name$request_uri;")>>
     /\ blocks[Len(blocks)].header = Chars("server")
     /\ StartsWith(BodyLines(blocks[Len(blocks)].body)[1],
                   Chars("listen ") \o Template(GetK(config, "port")))
     /\ ~Includes(blocks[Len(blocks)].body, Chars("return 301"))

\* C11: every text generateNginxConfig returns consists of one upstream block
\* per named pool, in the order of the schema's pools and with the server
\* lines in list order, then the redirect server block if and only if
\* ssl.forceRedirect is set, then exactly one main server block.
C11_GenerationOrder ==
  \A i \in 1..Len(texts) : texts[i].ok /\ InClaimedOrder(texts[i].v.s, given)

\* a call on a schema with two pools (one of two servers) and the redirect
C11_Witness ==
  /\ texts # <<>>
  /\ Len(Entries(GetK(given, "upstreams"))) = 2
  /\ Truthy(GetK(GetK(given, "ssl"), "forceRedirect"))
  /\ Len(TopBlocks(texts[1].v.s)) = 4

\* C12: after generateNginxConfig(S) has returned, S is what it was before
\* the call.
C12_InputUnmodified == texts # <<>> => schema = given

\* C13: two successive calls on one schema object return the same text, with
\* one location block per path rule of the schema (its locations and its
\* microservice routes).
C13_Deterministic ==
  Len(texts) >= 2 =>
    /\ texts[2] = texts[1]
    /\ \A i \in 1..2 :
         CountSub(texts[i].v.s, Chars("    location "))
           = Len(GetK(given, "locations").e) + Len(GetK(given, "microservices").e)

----------------------------------------------------------------------------
(* SpecExtract: nginx2json reads one configuration text, NginxToJSON.convert *)
(* extracts the schema, and the schema is given to generateNginxConfig.      *)

MaxDirectives == 3

\* the lines a server block of the input is written from
ServerLines ==
  <<"listen 80;",
    "listen 443 ssl;",
    "listen unix:/s;",
    "listen 127.0.0.1:8080;",
    "server_name a.io  b.io;",
    "ssl_certificate /c;",
    "ssl_certificate_key /k;",
    "ssl_stapling on;",
    "location /a { root /r; proxy_read_timeout 90s; }",
    "location /b { index i; }",
    "location { }">>

UpstreamBlock == "upstream u { server h:1 weight=2; server h:2; }\n"

\* the input files: an optional upstream block, then one server block of up
\* to MaxDirectives lines
ConfigTexts ==
  {Chars(pre) \o Chars("server {\n")
     \o Concat([i \in 1..Len(ls) |-> Chars(ServerLines[ls[i]]) \o <<"\n">>]) \o Chars("}\n") :
   pre \in {"", UpstreamBlock},
   ls \in UNION {[1..k -> 1..Len(ServerLines)] : k \in 0..MaxDirectives}}

InitExtract ==
  /\ input \in ConfigTexts
  /\ extracted = [ok |-> FALSE, v |-> Undefined]
  /\ regenerated = [ok |-> FALSE, v |-> Undefined]
  /\ xpc = "read"
  /\ given = Undefined
  /\ schema = Undefined
  /\ texts = <<>>
  /\ responses = <<>>
  /\ written = <<>>
  /\ ParseIdle
  /\ PathIdle
  /\ SvcIdle
  /\ OpsIdle

\* const result = converter.convert(nginxConfig); a throw ends in the catch
\* of main
Convert ==
  /\ xpc = "read"
  /\ extracted' = convert(input)
  /\ xpc' = IF extracted'.ok THEN "converted" ELSE "failed"
  /\ UNCHANGED <<given, schema, texts, input, regenerated, responses, written>>
  /\ UNCHANGED <<parseVars, pathVars, svcVars, opsVars>>

\* generateNginxConfig(result) on the extracted schema
Regenerate ==
  /\ xpc = "converted"
  /\ LET call == generateNginxConfig(extracted.v)
     IN regenerated' = [ok |-> call.ok, v |-> call.v]
  /\ xpc' = "regenerated"
  /\ UNCHANGED <<given, schema, texts, input, extracted, responses, written>>
  /\ UNCHANGED <<parseVars, pathVars, svcVars, opsVars>>

NextExtract == Convert \/ Regenerate

SpecExtract == InitExtract /\ [][NextExtract]_vars

----------------------------------------------------------------------------
(* What the input says, read off its lines: the reference the extracted     *)
(* schema is compared with.                                                 *)

\* the whitespace-separated tokens of s
Words(s) == SelectSeq(Split(s, " "), LAMBDA w : w # <<>>)

\* the lines of the input that open a block or hold a directive called name
LinesOf(text, name) ==
  SelectSeq(Split(text, "\n"),
            LAMBDA l : LET words == Words(l) IN words # <<>> /\ words[1] = Chars(name))

\* the arguments of a directive, as written, separated by single spaces
Arguments(directive) ==
  LET words == Words(directive)
      last == words[Len(words)]
      bare == IF last[Len(last)] = ";"
              THEN SubSeq(words, 1, Len(words) - 1) \o <<SubSeq(last, 1, Len(last) - 1)>>
              ELSE words
  IN Join(Tail(bare), <<" ">>)

\* the directives written between the braces of a one-line block
InnerDirectives(line) ==
  LET open == MinOf({i \in 1..Len(line) : line[i] = "{"})
      close == MaxOf({i \in 1..Len(line) : line[i] = "}"})
      pieces == Split(SubSeq(line, open + 1, close - 1), ";")
  IN SelectSeq([i \in 1..Len(pieces) |-> Trim(pieces[i])], LAMBDA d : d # <<>>)

\* the schema field a location directive with a single string value goes to
SimpleField(name) ==
  IF name = Chars("root") THEN "root"
  ELSE IF name = Chars("index") THEN "index"
  ELSE IF name = Chars("try_files") THEN "try_files"
  ELSE IF name = Chars("proxy_pass") THEN "proxyPass"
  ELSE ""

\* the path rules of a schema
LocationsOf(config) ==
  IF GetK(config, "locations").t = "L" THEN GetK(config, "locations").e ELSE <<>>

\* convert has returned a schema for the input
Extracted == xpc \in {"converted", "regenerated"}

\* C14: when the server block of the input holds n blocks `location <path>
\* { ... }`, the extracted schema has exactly n path rules, in source order,
\* the i-th with the path of the i-th block and with the root, index,
\* try_files and proxy_pass written inside that block.
C14_LocationExtraction ==
  LET blocks == LinesOf(input, "location")
      rules == LocationsOf(extracted.v)
  IN (Extracted /\ \A i \in 1..Len(blocks) : Words(blocks[i])[2] # <<"{">>) =>
       /\ Len(rules) = Len(blocks)
       /\ \A i \in 1..Len(blocks) :
            /\ GetK(rules[i], "path") = Str(Words(blocks[i])[2])
            /\ \A j \in 1..Len(InnerDirectives(blocks[i])) :
                 LET d == InnerDirectives(blocks[i])[j]
                 IN SimpleField(Words(d)[1]) # "" =>
                      GetK(rules[i], SimpleField(Words(d)[1])) = Str(Arguments(d))

\* C15: every block `upstream <name> { server <addr> [weight=N]; ... }` of
\* the input is a pool upstreams[<name>] of the extracted schema, with one
\* entry per server line, in source order, holding the address and the
\* weight that was written.
C15_UpstreamExtraction ==
  Extracted =>
    \A b \in 1..Len(LinesOf(input, "upstream")) :
      LET block == LinesOf(input, "upstream")[b]
          servers == InnerDirectives(block)
          pool == Get(GetK(extracted.v, "upstreams"), Words(block)[2])
      IN /\ pool.t = "L"
         /\ Len(pool.e) = Len(servers)
         /\ \A i \in 1..Len(servers) :
              /\ GetK(pool.e[i], "address") = Str(Words(servers[i])[2])
              /\ \A w \in 3..Len(Words(servers[i])) :
                   LET word == Words(servers[i])[w]
                   IN StartsWith(word, Chars("weight=")) =>
                        GetK(pool.e[i], "weight") = parseInt(SubSeq(word, 8, Len(word)))

\* the directive names a location block is extracted from field by field
RecognizedNames ==
  {Chars(n) : n \in {"root", "index", "try_files", "proxy_pass", "fastcgi_pass",
                     "proxy_cache_valid", "proxy_cache_key", "proxy_cache_use_stale",
                     "limit_req", "add_header"}}

\* text holds `directive;` inside the block that opens with head
InBlock(text, head, directive) ==
  \E i \in 1..Len(text), j \in 1..Len(text) :
    /\ i < j
    /\ SubSeq(text, i, i + Len(head) - 1) = head
    /\ SubSeq(text, j, j + Len(directive)) = directive \o <<";">>
    /\ \A k \in i..j : text[k] # "}"

\* C16: a directive of a location block that is not in the recognized
\* vocabulary is in the extraDirectives of the path rule extracted from that
\* block, and generateNginxConfig of the extracted schema returns a text that
\* holds it, followed by `;`, inside the location block of that path.
C16_UnknownPreserved ==
  \A b \in 1..Len(LinesOf(input, "location")) :
    LET block == LinesOf(input, "location")[b]
        path == Words(block)[2]
    IN path # <<"{">> =>
         \A j \in 1..Len(InnerDirectives(block)) :
           LET d == InnerDirectives(block)[j]
           IN Words(d)[1] \notin RecognizedNames =>
                /\ Extracted =>
                     \E i \in 1..Len(LocationsOf(extracted.v)) :
                       LET rule == LocationsOf(extracted.v)[i]
                       IN /\ GetK(rule, "path") = Str(path)
                          /\ \E e \in 1..Len(GetK(rule, "extraDirectives").e) :
                               GetK(rule, "extraDirectives").e[e] = Str(d)
                /\ xpc = "regenerated" =>
                     /\ regenerated.ok
                     /\ InBlock(regenerated.v.s, Chars("location ") \o path \o Chars(" {"), d)

\* C17: NginxToJSON.convert returns a schema for every server block text; it
\* never throws.
C17_NeverThrows == xpc # "failed"

\* the integer written by the first run of digits of s
FirstNumber(s) ==
  LET from == MinOf({i \in 1..Len(s) : IsDigit(s[i])})
      to == MaxOf({j \in from..Len(s) : \A k \in from..j : IsDigit(s[k])})
      value[k \in from - 1..to] ==
        IF k = from - 1 THEN 0 ELSE 10 * value[k - 1] + DigitVal(s[k])
  IN value[to]

\* the last of the directives called name in the server block of the input
LastOf(name) == LET lines == LinesOf(input, name) IN lines[Len(lines)]

\* C18: in the schema extracted from a server block, serverName is the
\* argument string of `server_name` (of the last one when it is repeated),
\* domain is its first whitespace-separated token, and port is the integer
\* written by the first run of digits in the arguments of `listen`.
C18_IdentityExtraction ==
  Extracted =>
    /\ LinesOf(input, "server_name") # <<>> =>
         /\ GetK(extracted.v, "serverName") = Str(Arguments(LastOf("server_name")))
         /\ GetK(extracted.v, "domain") = Str(Words(LastOf("server_name"))[2])
    /\ LinesOf(input, "listen") # <<>> =>
         GetK(extracted.v, "port") = Num(FirstNumber(Arguments(LastOf("listen"))))

\* a server block with a two-name server_name and an address:port listen
C18_Witness ==
  /\ Extracted
  /\ GetK(extracted.v, "serverName") = Str(Chars("a.io b.io"))
  /\ GetK(extracted.v, "domain") = Str(Chars("a.io"))
  /\ LinesOf(input, "listen") # <<>>
  /\ Arguments(LastOf("listen")) = Chars("127.0.0.1:8080")
  /\ GetK(extracted.v, "port") = Num(127)

\* the server-level lines of the input that hold an `ssl_*` directive
SslLines ==
  SelectSeq(Split(input, "\n"),
            LAMBDA l : LET words == Words(l)
                       IN words # <<>> /\ StartsWith(words[1], Chars("ssl_")))

\* some listen directive of the input carries the token `ssl`
ListenSsl ==
  LET lines == LinesOf(input, "listen")
  IN \E i \in 1..Len(lines) :
       LET words == Words(Arguments(lines[i]))
       IN \E w \in 1..Len(words) : words[w] = Chars("ssl")

\* the fields of the ssl block and the directive each is read from
SslFields ==
  {<<"certificate", "ssl_certificate">>, <<"certificateKey", "ssl_certificate_key">>,
   <<"protocols", "ssl_protocols">>, <<"ciphers", "ssl_ciphers">>,
   <<"preferServerCiphers", "ssl_prefer_server_ciphers">>, <<"dhParam", "ssl_dhparam">>,
   <<"ocspStapling", "ssl_stapling">>, <<"sessionTimeout", "ssl_session_timeout">>}

----------------------------------------------------------------------------
(* The validator: validateConfig, isValidUrl, isValidRateLimit              *)

\* new URL(str) succeeds inside isValidUrl: the text opens with a scheme, and
\* for http, https, ws, wss and ftp a host follows it; a value that is not a
\* string throws inside the try and gives false
isValidUrl(str) ==
  LET s == str.s
      Letters == {c \in {s[i] : i \in 1..Len(s)} :
                    \E i \in 1..52 :
                      Chars("abcdefghijklmnopqrstuvwxyzABCDEFGHIJKLMNOPQRSTUVWXYZ")[i] = c}
      colons == {i \in 1..Len(s) : s[i] = ":"}
      HostAfter(colon) ==
        LET rest == SubSeq(s, colon + 1, Len(s))
            slashes == {i \in 0..Len(rest) : \A k \in 1..i : rest[k] \in {"/", "\\"}}
            host == Split(SubSeq(rest, MaxOf(slashes) + 1, Len(rest)), "/")[1]
        IN host # <<>> /\ \A i \in 1..Len(host) : host[i] # " "
      WithScheme(colon) ==
        /\ colon > 1
        /\ s[1] \in Letters
        /\ \A i \in 2..colon - 1 : s[i] \in Letters \/ IsDigit(s[i]) \/ s[i] \in {"+", "-", "."}
        /\ SubSeq(s, 1, colon - 1) \in {Chars("http"), Chars("https"), Chars("ws"),
                                        Chars("wss"), Chars("ftp")} => HostAfter(colon)
  IN /\ str.t = "S"
     /\ \/ StartsWith(s, Chars("unix:"))
        \/ colons # {} /\ WithScheme(MinOf(colons))

\* /^\d+r\/[smhd]$/.test(rate)
isValidRateLimit(rate) ==
  LET s == Template(rate)
      n == Len(s)
  IN /\ n >= 4
     /\ \A i \in 1..n - 3 : IsDigit(s[i])
     /\ s[n - 2] = "r"
     /\ s[n - 1] = "/"
     /\ s[n] \in {"s", "m", "h", "d"}

\* validateConfig: the `field` of every error pushed, in order; a TypeError
\* where the code reads a property of undefined or calls every / forEach on
\* a value that is not an array
validateConfig(config) ==
  LET Err(cond, field) == IF cond THEN <<Chars(field)>> ELSE <<>>
      \* x && (typeof x !== "number" || x < 0)
      BadNumber(x) == Truthy(x) /\ x.t # "N"
      \* /^[a-zA-Z0-9][a-zA-Z0-9-_.]+\.[a-zA-Z]{2,}$/.test(domain)
      DomainOk(domain) ==
        LET s == Template(domain)
            Letter(c) == \E i \in 1..52 :
                           Chars("abcdefghijklmnopqrstuvwxyzABCDEFGHIJKLMNOPQRSTUVWXYZ")[i] = c
        IN \E dot \in 3..Len(s) - 2 :
             /\ Letter(s[1]) \/ IsDigit(s[1])
             /\ \A i \in 2..dot - 1 :
                  Letter(s[i]) \/ IsDigit(s[i]) \/ s[i] \in {"-", "_", "."}
             /\ s[dot] = "."
             /\ \A i \in dot + 1..Len(s) : Letter(s[i])
      ssl == GetK(config, "ssl")
      protocols == GetK(ssl, "protocols")
      locations == GetK(config, "locations")
      upstreams == GetK(config, "upstreams")
      Known(list, v) == \E i \in 1..Len(list) : v = Str(Chars(list[i]))
      Required ==
        Err(~Truthy(GetK(config, "domain")), "domain")
          \o Err(Truthy(GetK(config, "domain")) /\ ~DomainOk(GetK(config, "domain")), "domain")
          \o Err(~Truthy(GetK(config, "serverName")), "serverName")
          \o Err(GetK(config, "port").t # "N"
                   \/ (GetK(config, "port").s = <<>>
                         /\ (GetK(config, "port").n < 1 \/ GetK(config, "port").n > 65535)),
                 "port")
      Ssl ==
        IF ~Truthy(ssl) THEN <<>>
        ELSE Err(~Truthy(GetK(ssl, "certificate")), "ssl.certificate")
               \o Err(~Truthy(GetK(ssl, "certificateKey")), "ssl.certificateKey")
               \o Err(Truthy(protocols)
                        /\ \E i \in 1..Len(protocols.e) :
                             ~Known(<<"SSLv2", "SSLv3", "TLSv1", "TLSv1.1", "TLSv1.2", "TLSv1.3">>,
                                    protocols.e[i]), "ssl.protocols")
               \o Err(BadNumber(GetK(GetK(ssl, "hsts"), "maxAge")), "ssl.hsts.maxAge")
      Security ==
        Err(Truthy(GetK(GetK(config, "security"), "xFrameOptions"))
              /\ ~Known(<<"DENY", "SAMEORIGIN", "ALLOW-FROM">>,
                        GetK(GetK(config, "security"), "xFrameOptions")),
            "security.xFrameOptions")
      \* the callback of config.locations.forEach
      Location(loc, index) ==
        LET Field(field) == Chars("locations[") \o NatToChars(index) \o Chars("].") \o Chars(field)
            Push(cond, field) == IF cond THEN <<Field(field)>> ELSE <<>>
        IN Push(~Truthy(GetK(loc, "path")), "path")
             \o Push(Truthy(GetK(loc, "proxyPass")) /\ ~isValidUrl(GetK(loc, "proxyPass")),
                     "proxyPass")
             \o (IF ~Truthy(GetK(loc, "rateLimit")) THEN <<>>
                 ELSE Push(~isValidRateLimit(GetK(GetK(loc, "rateLimit"), "rate")),
                           "rateLimit.rate")
                        \o Push(BadNumber(GetK(GetK(loc, "rateLimit"), "burstSize")),
                                "rateLimit.burstSize"))
             \o Push(Truthy(GetK(GetK(loc, "cache"), "enabled"))
                       /\ BadNumber(GetK(GetK(loc, "cache"), "minUses")), "cache.minUses")
             \o Push(Truthy(GetK(GetK(loc, "websocket"), "enabled"))
                       /\ BadNumber(GetK(GetK(loc, "websocket"), "timeout")),
                     "websocket.timeout")
      Locations ==
        IF ~Truthy(locations) \/ Get(locations, LengthKey) = Num(0) THEN <<Chars("locations")>>
        ELSE Concat([i \in 1..Len(locations.e) |-> Location(locations.e[i], i - 1)])
      \* the callback of Object.entries(config.upstreams).forEach
      Upstream(name, servers) ==
        LET Field(index, field) == Chars("upstreams.") \o name \o Chars("[")
                                  \o NatToChars(index) \o Chars("].") \o Chars(field)
            Server(server, index) ==
              (IF ~Truthy(GetK(server, "address")) THEN <<Field(index, "address")>> ELSE <<>>)
                \o (IF BadNumber(GetK(server, "weight")) THEN <<Field(index, "weight")>> ELSE <<>>)
                \o (IF BadNumber(GetK(server, "maxFails")) THEN <<Field(index, "maxFails")>>
                    ELSE <<>>)
        IN IF ~Truthy(servers) \/ Get(servers, LengthKey) = Num(0)
           THEN <<Chars("upstreams.") \o name>>
           ELSE Concat([i \in 1..Len(servers.e) |-> Server(servers.e[i], i - 1)])
      Upstreams ==
        IF ~Truthy(upstreams) THEN <<>>
        ELSE Concat([i \in 1..Len(Entries(upstreams)) |->
                       Upstream(Entries(upstreams)[i].k, Entries(upstreams)[i].v)])
      TypeError ==
        \/ config.t = "U"
        \/ Truthy(ssl) /\ Truthy(protocols) /\ protocols.t # "L"
        \/ Truthy(locations) /\ Get(locations, LengthKey) # Num(0)
             /\ (locations.t # "L" \/ \E i \in 1..Len(locations.e) : locations.e[i].t = "U")
        \/ Truthy(upstreams)
             /\ \E i \in 1..Len(Entries(upstreams)) :
                  LET servers == Entries(upstreams)[i].v
                  IN Truthy(servers) /\ Get(servers, LengthKey) # Num(0)
                       /\ (servers.t # "L" \/ \E j \in 1..Len(servers.e) : servers.e[j].t = "U")
  IN IF TypeError THEN Threw
     ELSE Returned(Required \o Ssl \o Security \o Locations \o Upstreams)

----------------------------------------------------------------------------
(* The templates and the POST handler of main.ts                            *)

\* Object.keys(templates)
TemplateNames == <<"static", "spa", "wordpress", "microservices">>

\* templates[name] and the call templates[name](params).  found: the property
\* read is truthy; besides the four templates these are the properties the
\* object literal inherits (of them: constructor, which is Object and returns
\* params; toString; __proto__, which is not a function).
templates(name, params) ==
  LET domain == Template(GetK(params, "domain"))
      sslEnabled == Truthy(GetK(params, "sslEnabled"))
      Identity(serverName) ==
        <<<<"domain", GetK(params, "domain")>>, <<"serverName", Str(serverName)>>,
          <<"port", Num(IF sslEnabled THEN 443 ELSE 80)>>>>
      \* ...(params.sslEnabled && { ssl: {...} })
      Ssl(more) ==
        IF ~sslEnabled THEN <<>>
        ELSE <<<<"ssl",
                 Rec(<<<<"certificate",
                         Str(Chars("/etc/letsencrypt/live/") \o domain \o Chars("/fullchain.pem"))>>,
                       <<"certificateKey",
                         Str(Chars("/etc/letsencrypt/live/") \o domain \o Chars("/privkey.pem"))>>,
                       <<"forceRedirect", Bool(TRUE)>>>> \o more)>>>>
      Security(more) ==
        <<<<"security", Rec(<<<<"xFrameOptions", S("DENY")>>, <<"xContentTypeOptions", Bool(TRUE)>>,
                              <<"xXSSProtection", Bool(TRUE)>>>> \o more)>>>>
      Cors ==
        Rec(<<<<"enabled", Bool(TRUE)>>,
              <<"origins", Arr(<<Str(Chars("https://") \o domain)>>)>>,
              <<"methods", List(<<"GET", "POST", "PUT", "DELETE", "OPTIONS">>)>>,
              <<"headers", List(<<"Authorization", "Content-Type">>)>>,
              <<"credentials", Bool(TRUE)>>>>)
      Root(index, tryFiles, more) ==
        Rec(<<<<"path", S("/")>>, <<"root", GetK(params, "rootPath")>>, <<"index", S(index)>>,
              <<"try_files", S(tryFiles)>>>> \o more)
      Assets(path) ==
        Rec(<<<<"path", S(path)>>, <<"root", GetK(params, "rootPath")>>,
              <<"extraDirectives", List(<<"expires 30d", "add_header Cache-Control public">>)>>>>)
      Php ==
        <<<<"php",
            Rec(<<<<"enabled", Bool(TRUE)>>,
                  <<"socketPath",
                    Str(Chars("/var/run/php/php")
                          \o (IF Truthy(GetK(params, "phpVersion"))
                              THEN Template(GetK(params, "phpVersion")) ELSE Chars("8.1"))
                          \o Chars("-fpm.sock"))>>,
                  <<"extraParams",
                    Rec(<<<<"SCRIPT_FILENAME", S("$document_root$fastcgi_script_name")>>,
                          <<"PATH_INFO", S("$fastcgi_path_info")>>>>)>>>>)>>>>
      services == GetK(params, "services")
      \* Object.fromEntries(params.services.map(svc => [svc.name, [...]]))
      Pool(upstreams, svc) ==
        Put(upstreams, Template(GetK(svc, "name")),
            Arr(<<Rec(<<<<"address",
                          Str(Chars("localhost:") \o Template(GetK(svc, "port")))>>>>)>>))
      Service(svc) ==
        Rec(<<<<"path", GetK(svc, "path")>>,
              <<"proxyPass", Str(Chars("http://") \o Template(GetK(svc, "name")))>>>>
            \o (IF Truthy(GetK(svc, "methods"))
                THEN <<<<"extraDirectives",
                         Arr(<<Str(Chars("limit_except ") \o JoinArr(GetK(svc, "methods"), " ")
                                     \o Chars(" { deny all; }"))>>)>>>>
                ELSE <<>>)
            \o (IF Truthy(GetK(svc, "corsEnabled")) THEN <<<<"cors", Cors>>>> ELSE <<>>))
      Built(config) == [found |-> TRUE, ok |-> TRUE, v |-> config]
      TypeError == [found |-> TRUE, ok |-> FALSE, v |-> Undefined]
  IN IF name = Chars("static") THEN
       Built(Rec(Identity(domain \o Chars(" www.") \o domain) \o Ssl(<<>>)
                   \o <<<<"gzip", Bool(TRUE)>>,
                        <<"locations", Arr(<<Root("index.html", "$uri $uri/ =404", <<>>),
                                             Assets("/assets")>>)>>>>))
     ELSE IF name = Chars("spa") THEN
       Built(Rec(Identity(domain \o Chars(" www.") \o domain) \o Ssl(<<>>)
                   \o <<<<"gzip", Bool(TRUE)>>>> \o Security(<<>>)
                   \o <<<<"locations",
                          Arr(<<Root("index.html", "$uri $uri/ /index.html", <<>>)>>
                              \o (IF Truthy(GetK(params, "apiUrl"))
                                  THEN <<Rec(<<<<"path", S("/api")>>,
                                               <<"proxyPass", GetK(params, "apiUrl")>>,
                                               <<"cors", Cors>>>>)>>
                                  ELSE <<>>)
                              \o <<Assets("/assets")>>)>>>>))
     ELSE IF name = Chars("wordpress") THEN
       Built(Rec(Identity(domain \o Chars(" www.") \o domain) \o Ssl(<<>>)
                   \o <<<<"gzip", Bool(TRUE)>>, <<"clientMaxBodySize", S("64M")>>,
                        <<"locations",
                          Arr(<<Root("index.php", "$uri $uri/ /index.php?$args", Php),
                                Rec(<<<<"path", S("~ \\.php$")>>>> \o Php),
                                Assets("/wp-content")>>)>>>>))
     ELSE IF name = Chars("microservices") THEN
       IF services.t # "L" \/ \E i \in 1..Len(services.e) : services.e[i].t = "U"
       THEN TypeError
       ELSE Built(Rec(Identity(domain)
                        \o Ssl(<<<<"protocols", List(<<"TLSv1.2", "TLSv1.3">>)>>>>)
                        \o Security(<<<<"referrerPolicy",
                                        S("strict-origin-when-cross-origin")>>>>)
                        \o <<<<"gzip", Bool(TRUE)>>,
                             <<"upstreams", FoldLeft(Pool, Obj(<<>>), services.e)>>,
                             <<"locations",
                               Arr([i \in 1..Len(services.e) |-> Service(services.e[i])])>>>>))
     ELSE IF name = Chars("constructor") THEN Built(params)
     ELSE IF name = Chars("toString") THEN Built(S("[object Object]"))
     ELSE IF name = Chars("__proto__") THEN TypeError
     ELSE [found |-> FALSE, ok |-> FALSE, v |-> Undefined]

\* handler(req) for a POST whose JSON body is data: the response, the value
\* validateConfig returned (validated: "no" when it was not called, "threw"
\* when it threw) and whether Deno.writeTextFile was called
handler(data) ==
  LET Answer(status, error, validated, errors) ==
        [status |-> status, error |-> error, validated |-> validated, errors |-> errors,
         wrote |-> FALSE, config |-> <<>>, fileName |-> <<>>, template |-> Undefined]
      Caught == Answer(500, "error.message", "no", <<>>)
      \* from `const errors = validateConfig(config)` on
      Validated(config) ==
        LET Generated(errors, text) ==
              IF ~errors.ok THEN [Caught EXCEPT !.validated = "threw"]
              ELSE IF Len(errors.v) > 0
              THEN Answer(400, "Configuration validation failed", "returned", errors.v)
              ELSE IF ~text.ok THEN [Caught EXCEPT !.validated = "returned"]
              ELSE [status |-> 200, error |-> "", validated |-> "returned", errors |-> <<>>,
                    wrote |-> TRUE, config |-> text.v.s,
                    fileName |-> Template(GetK(config, "domain")) \o Chars(".conf"),
                    template |-> GetK(data, "template")]
        IN Generated(validateConfig(config), generateNginxConfig(config))
      FromTemplate(template) ==
        IF ~template.found THEN Answer(400, "Template not found", "no", <<>>)
        ELSE IF ~template.ok THEN Caught
        ELSE Validated(template.v)
  IN IF data.t = "U" THEN Caught
     ELSE IF Truthy(GetK(data, "template")) /\ Truthy(GetK(data, "templateParams"))
     THEN FromTemplate(templates(Template(GetK(data, "template")), GetK(data, "templateParams")))
     ELSE IF Truthy(GetK(data, "config")) THEN Validated(GetK(data, "config"))
     ELSE Answer(400, "Either template and templateParams or config must be provided",
                 "no", <<>>)

----------------------------------------------------------------------------
(* SpecHandler: the server of main.ts answers up to MaxRequests POST        *)
(* requests.                                                                *)

MaxRequests == 2

\* the JSON bodies of the requests (Undefined: the body `null`)
Requests ==
  LET Site == <<<<"domain", S("ab.io")>>, <<"rootPath", S("/w")>>>>
      Valid == <<<<"domain", S("ab.io")>>, <<"serverName", S("ab.io")>>, <<"port", Num(80)>>,
                 <<"locations", Arr(<<Rec(<<<<"path", S("/")>>, <<"root", S("/w")>>>>)>>)>>>>
      Params ==
        {Rec(Site), Rec(Site \o <<<<"sslEnabled", Bool(TRUE)>>>>), Rec(<<>>), Rec(Valid),
         Rec(<<<<"domain", S("ab.io")>>,
               <<"services", Arr(<<Rec(<<<<"name", S("u")>>, <<"port", Num(3000)>>,
                                         <<"path", S("/u")>>,
                                         <<"corsEnabled", Bool(TRUE)>>>>)>>)>>>>)}
      Configs ==
        {Rec(Valid),
         Rec(<<<<"domain", S("ab.io")>>, <<"serverName", S("ab.io")>>, <<"port", Num(0)>>,
               <<"locations", Arr(<<>>)>>>>),
         Rec(Valid \o <<<<"ssl", Rec(<<>>)>>>>),
         Rec(Valid \o <<<<"ssl", Rec(<<<<"certificate", S("/c")>>, <<"certificateKey", S("/k")>>,
                                       <<"protocols", S("TLSv1.3")>>>>)>>>>)}
      Names == {"static", "spa", "wordpress", "microservices", "bogus", "constructor",
                "toString", "__proto__"}
  IN {Undefined, Rec(<<>>), Rec(<<<<"templateParams", Rec(Site)>>>>),
      Rec(<<<<"template", S("bogus")>>, <<"config", Rec(Valid)>>>>)}
       \cup {Rec(<<<<"template", S(n)>>>>) : n \in {"static", "bogus"}}
       \cup {Rec(<<<<"template", S(n)>>, <<"templateParams", p>>>>) : n \in Names, p \in Params}
       \cup {Rec(<<<<"config", c>>>>) : c \in Configs}

InitHandler ==
  /\ responses = <<>>
  /\ written = <<>>
  /\ given = Undefined
  /\ schema = Undefined
  /\ texts = <<>>
  /\ input = <<>>
  /\ extracted = [ok |-> FALSE, v |-> Undefined]
  /\ regenerated = [ok |-> FALSE, v |-> Undefined]
  /\ xpc = "off"
  /\ ParseIdle
  /\ PathIdle
  /\ SvcIdle
  /\ OpsIdle

\* one POST request is answered; a 200 answer follows
\* Deno.writeTextFile(fileName, nginxConfig)
Post ==
  /\ Len(responses) < MaxRequests
  /\ \E data \in Requests :
       /\ responses' = Append(responses, [request |-> data, response |-> handler(data)])
       /\ written' = IF responses'[Len(responses')].response.wrote
                     THEN Append(written,
                                 [request |-> Len(responses'),
                                  name |-> responses'[Len(responses')].response.fileName,
                                  text |-> responses'[Len(responses')].response.config])
                     ELSE written
  /\ UNCHANGED <<given, schema, texts, input, extracted, regenerated, xpc>>
  /\ UNCHANGED <<parseVars, pathVars, svcVars, opsVars>>

NextHandler == Post

SpecHandler == InitHandler /\ [][NextHandler]_vars

\* Deno.writeTextFile was called while request i was handled
WroteFile(i) == \E w \in 1..Len(written) : written[w].request = i

\* the body of request i names a template and gives templateParams
ByTemplate(i) ==
  /\ Truthy(GetK(responses[i].request, "template"))
  /\ Truthy(GetK(responses[i].request, "templateParams"))

\* C20: a file is written and the text returned only for a config for which
\* validateConfig returned no errors; when validateConfig returns errors,
\* when template and templateParams are given and the template is not one of
\* the templates, and when neither template and templateParams nor config is
\* given, the answer has status 400 and no file is written.
C20_ValidationGates ==
  \A i \in 1..Len(responses) :
    LET data == responses[i].request
        r == responses[i].response
    IN /\ (WroteFile(i) \/ r.status = 200) => (r.validated = "returned" /\ r.errors = <<>>)
       /\ (r.validated = "returned" /\ r.errors # <<>>) => (r.status = 400 /\ ~WroteFile(i))
       /\ (ByTemplate(i)
             /\ \A n \in 1..Len(TemplateNames) :
                  GetK(data, "template") # Str(Chars(TemplateNames[n])))
            => (r.status = 400 /\ ~WroteFile(i))
       /\ (~ByTemplate(i) /\ ~Truthy(GetK(data, "config")))
            => (r.status = 400 /\ ~WroteFile(i))

----------------------------------------------------------------------------
(* The file system under the Parser and the server: Deno.stat,              *)
(* Deno.writeTextFile, Deno.remove, and Parser.writeConfigFile.             *)

\* the paths used: the two files server.ts names, and the directory of the
\* first, which is a path that is not a file
ConfFile == [dir |-> "/etc/nginx", name |-> Chars("nginx.conf")]
TempFile == [dir |-> "/tmp", name |-> Chars("nginx_test.conf")]
ConfDir == [dir |-> "/etc", name |-> Chars("nginx")]

Paths == {ConfFile, TempFile, ConfDir}

\* what Deno.stat finds at a path
Nothing == [kind |-> "none", text |-> <<>>]
Directory == [kind |-> "dir", text |-> <<>>]
File(text) == [kind |-> "file", text |-> text]

\* the messages of the errors thrown (the first without its back-quotes)
AlreadyExists == "File already exists, to overwrite, set overwrite = true"
IsADirectory == "Is a directory (os error 21)"

\* Parser.writeConfigFile with its guard left out: Deno.writeTextFile alone
writeTextFile(fs, file, data, overwrite) ==
  IF fs[file].kind = "dir" THEN [threw |-> IsADirectory, disk |-> fs]
  ELSE [threw |-> "",
        disk |-> [fs EXCEPT ![file] = File(IF data.t = "S" THEN data.s ELSE toConf(data))]]

\* Parser.writeConfigFile(fileName, data, overwrite) on the file system fs as
\* one step: the error thrown ("" if none) and the file system afterwards.
\* Deno.stat rejects with NotFound when nothing is at the path, and the catch
\* swallows that error only.
writeConfigFile(fs, file, data, overwrite) ==
  IF fs[file].kind = "file" /\ ~overwrite THEN [threw |-> AlreadyExists, disk |-> fs]
  ELSE writeTextFile(fs, file, data, overwrite)

----------------------------------------------------------------------------
(* SpecWrite: up to MaxWrites calls of Parser.writeConfigFile on one        *)
(* Parser, on a file system in which each of the two files may exist.       *)

MaxWrites == 2

\* the data handed to writeConfigFile: a string or a config object
WriteData ==
  {S("a 1;\n"), S(""), Rec(<<<<"a", S("1")>>>>),
   Rec(<<<<"s", Rec(<<<<"listen", S("80")>>>>)>>, <<"b", S("2")>>>>)}

\* the third argument: left out (the default, false), false or true
OverwriteArgs == {"omitted", "false", "true"}

\* the file systems at the start: each of the two files is there or not
Disks ==
  {[p \in Paths |-> IF p = ConfDir THEN Directory ELSE IF p = ConfFile THEN c ELSE t] :
     c \in {Nothing, File(Chars("a 1;\n")), File(Chars("old 0;\n"))},
     t \in {Nothing, File(Chars("a 1;\n"))}}

InitWrite ==
  /\ disk \in Disks
  /\ writes = <<>>
  /\ jobs = <<>>
  /\ client = Undefined
  /\ run = Undefined
  /\ wire = <<>>
  /\ ParseIdle
  /\ PathIdle
  /\ SvcIdle
  /\ AppIdle

\* await parser.writeConfigFile(file, data, overwrite)
WriteConfigFile ==
  /\ Len(writes) < MaxWrites
  /\ \E file \in Paths, data \in WriteData, arg \in OverwriteArgs :
       LET call == writeConfigFile(disk, file, data, arg = "true")
       IN /\ fileName' = file
          /\ serverRoot' = setFileName(serverRoot, file)
          /\ disk' = call.disk
          /\ writes' = Append(writes, [file |-> file, data |-> data, overwrite |-> arg,
                                       before |-> disk[file], threw |-> call.threw,
                                       after |-> call.disk[file]])
  /\ UNCHANGED <<heap, calls, tasks, rejections, jobs, client, run, wire>>
  /\ UNCHANGED <<parseVars, pathVars, appVars>>

NextWrite == WriteConfigFile

SpecWrite == InitWrite /\ [][NextWrite]_vars

\* the text writeConfigFile is to write for the data it is given
ContentOf(data) == IF data.t = "S" THEN data.s ELSE toConf(data)

\* C21: a call of writeConfigFile without overwrite (left out or false) on a
\* path where a file exists throws 'File already exists' and leaves the
\* file's content as it was; a call on a path where nothing exists, or with
\* overwrite = true on an existing file, throws nothing and leaves the file
\* holding the content.
C21_OverwriteGuard ==
  \A i \in 1..Len(writes) :
    LET w == writes[i]
    IN /\ (w.before.kind = "file" /\ w.overwrite # "true")
            => (w.threw = AlreadyExists /\ w.after = w.before)
       /\ (w.before.kind = "none" \/ (w.before.kind = "file" /\ w.overwrite = "true"))
            => (w.threw = "" /\ w.after = File(ContentOf(w.data)))

\* a refused call on an existing file with the argument left out, and a call
\* with overwrite = true that replaced the text of an existing file
C21_Witness ==
  /\ \E i \in 1..Len(writes) :
       /\ writes[i].before.kind = "file" /\ writes[i].overwrite = "omitted"
       /\ writes[i].threw = AlreadyExists
  /\ \E i \in 1..Len(writes) :
       /\ writes[i].before.kind = "file" /\ writes[i].overwrite = "true"
       /\ writes[i].after # writes[i].before
       /\ disk[writes[i].file].kind = "file"

----------------------------------------------------------------------------
(* SpecServer: server.ts. POST /api/nginx/config and POST                   *)
(* /api/nginx/validate are served by one module-level Parser on one file    *)
(* system; a validate request is suspended while `nginx -t` runs, so other  *)
(* requests are served in between.                                          *)

MaxJobs == 3

\* ctx.body: the config objects posted
Bodies ==
  {Rec(<<<<"a", S("1")>>>>),
   Rec(<<<<"s", Rec(<<<<"listen", S("80")>>>>)>>, <<"b", S("2")>>>>)}

\* what the errorHandler middleware answers when the handler throws
Failed(prefix, message) == [status |-> 500, reply |-> "error", message |-> <<prefix, message>>]

\* an answer the handler wrote itself
Answered(status, reply, message) == [status |-> status, reply |-> reply, message |-> <<message>>]

InitServer ==
  /\ disk \in {d \in Disks : d[TempFile] = Nothing}
  /\ jobs = <<>>
  /\ writes = <<>>
  /\ client = Undefined
  /\ run = Undefined
  /\ wire = <<>>
  /\ ParseIdle
  /\ PathIdle
  /\ SvcIdle
  /\ AppIdle

\* POST /api/nginx/config: toConf of the body, then writeConfigFile without
\* a third argument
PostConfig ==
  /\ Len(jobs) < MaxJobs
  /\ \E body \in Bodies :
       LET call == writeConfigFile(disk, ConfFile, Str(toConf(body)), FALSE)
       IN /\ disk' = call.disk
          /\ jobs' = Append(jobs,
               [route |-> "config", body |-> body,
                alone |-> \A j \in 1..Len(jobs) : jobs[j].pc = "done", pc |-> "done",
                before |-> disk[ConfFile], after |-> call.disk[ConfFile],
                answer |-> IF call.threw = ""
                           THEN Answered(200, "success", "Configuration updated successfully")
                           ELSE Failed("Failed to write NGINX config: ", call.threw)])
  /\ fileName' = ConfFile
  /\ serverRoot' = setFileName(serverRoot, ConfFile)
  /\ UNCHANGED <<heap, calls, tasks, rejections, writes, client, run, wire>>
  /\ UNCHANGED <<parseVars, pathVars, appVars>>

\* POST /api/nginx/validate up to the return of writeConfigFile(tempFile, ...)
ValidateWrite ==
  /\ Len(jobs) < MaxJobs
  /\ \E body \in Bodies :
       LET call == writeConfigFile(disk, TempFile, Str(toConf(body)), FALSE)
       IN /\ disk' = call.disk
          /\ jobs' = Append(jobs,
               [route |-> "validate", body |-> body,
                alone |-> \A j \in 1..Len(jobs) : jobs[j].pc = "done",
                pc |-> IF call.threw = "" THEN "written" ELSE "done",
                before |-> disk[TempFile], after |-> call.disk[TempFile],
                answer |-> IF call.threw = "" THEN Answered(0, "", "")
                           ELSE Failed("Validation failed: ", call.threw)])
  /\ fileName' = TempFile
  /\ serverRoot' = setFileName(serverRoot, TempFile)
  /\ UNCHANGED <<heap, calls, tasks, rejections, writes, client, run, wire>>
  /\ UNCHANGED <<parseVars, pathVars, appVars>>

\* Deno.run({cmd: ["nginx", "-t", "-c", tempFile]}): the process starts, or
\* Deno.run throws because the command cannot be started
ValidateRun ==
  /\ \E i \in 1..Len(jobs), starts \in BOOLEAN :
       /\ jobs[i].pc = "written"
       /\ jobs' = [jobs EXCEPT ![i] =
            IF starts THEN [@ EXCEPT !.pc = "testing"]
            ELSE [@ EXCEPT !.pc = "done",
                           !.answer = Failed("Validation failed: ", "Failed to spawn 'nginx'"),
                           !.after = disk[TempFile]]]
  /\ UNCHANGED <<disk, writes, client, run, wire>>
  /\ UNCHANGED <<parseVars, pathVars, svcVars, appVars>>

\* the process has exited with `code`: its output is read, Deno.remove(tempFile)
\* is awaited and the answer is written
ValidateFinish ==
  /\ \E i \in 1..Len(jobs), code \in {0, 1} :
       /\ jobs[i].pc = "testing"
       /\ IF disk[TempFile].kind = "none"
          THEN /\ disk' = disk
               /\ jobs' = [jobs EXCEPT ![i] =
                    [@ EXCEPT !.pc = "done", !.after = disk[TempFile],
                              !.answer = Failed("Validation failed: ", "No such file or directory")]]
          ELSE /\ disk' = [disk EXCEPT ![TempFile] = Nothing]
               /\ jobs' = [jobs EXCEPT ![i] =
                    [@ EXCEPT !.pc = "done", !.after = Nothing,
                              !.answer = IF code = 0
                                         THEN Answered(200, "success", "Configuration is valid")
                                         ELSE Answered(400, "error", "Configuration is invalid")]]
  /\ UNCHANGED <<writes, client, run, wire>>
  /\ UNCHANGED <<parseVars, pathVars, svcVars, appVars>>

NextServer == PostConfig \/ ValidateWrite \/ ValidateRun \/ ValidateFinish

SpecServer == InitServer /\ [][NextServer]_vars

\* C28: a POST to /api/nginx/config that finds /etc/nginx/nginx.conf existing
\* leaves the file holding toConf(body) and is answered "success",
\* "Configuration updated successfully".
C28_ConfigUpdated ==
  \A i \in 1..Len(jobs) :
    (jobs[i].route = "config" /\ jobs[i].before.kind = "file")
      => /\ jobs[i].after = File(toConf(jobs[i].body))
         /\ jobs[i].answer = Answered(200, "success", "Configuration updated successfully")

\* C29: once every validate request received has been answered, whatever the
\* outcomes, /tmp/nginx_test.conf does not exist, and no validate request
\* that arrived after the earlier ones were answered is refused because that
\* file exists.
C29_ValidateCleansUp ==
  /\ (\A i \in 1..Len(jobs) : jobs[i].pc = "done")
       => disk[TempFile] = Nothing
  /\ \A i \in 1..Len(jobs) :
       (jobs[i].route = "validate" /\ jobs[i].alone)
         => jobs[i].answer # Failed("Validation failed: ", AlreadyExists)

----------------------------------------------------------------------------
(* Claims about the location and SSL clauses of the generated text, checked *)
(* on SpecGen.                                                              *)

\* the location blocks of a generated text: the blocks inside its last
\* top-level block, the main server block
LocationBlocks(text) ==
  LET Inside(blocks) == TopBlocks(blocks[Len(blocks)].body)
  IN Inside(TopBlocks(text))

\* the clause group a line of a location block belongs to
ClauseKind(line) ==
  LET Has(prefixes) == \E p \in prefixes : StartsWith(line, Chars(p))
  IN IF Has({"proxy_pass ", "proxy_set_header Host ", "proxy_set_header X-"}) THEN "proxy"
     ELSE IF Has({"root ", "index ", "try_files "}) THEN "root"
     ELSE IF Has({"fastcgi_", "include fastcgi_params"}) THEN "php"
     ELSE IF Has({"proxy_http_version ", "proxy_set_header Upgrade ",
                  "proxy_set_header Connection ", "proxy_read_timeout ",
                  "proxy_send_timeout "}) THEN "websocket"
     ELSE IF Has({"proxy_cache_", "proxy_no_cache "}) THEN "cache"
     ELSE IF Has({"add_header 'Access-Control-"}) THEN "cors"
     ELSE IF Has({"limit_req "}) THEN "rate"
     ELSE "other"

\* in every location block of the last text returned, the last lines are the
\* passthrough directives of the location it was written for, and the lines
\* before them are clauses of the groups of `order`, in that order
ClausesInOrder(order) ==
  (texts # <<>> /\ texts[Len(texts)].ok) =>
    LET blocks == LocationBlocks(texts[Len(texts)].v.s)
        locs == GetK(schema, "locations").e
        Rank(line) == LET at == {k \in 1..Len(order) : order[k] = ClauseKind(line)}
                      IN IF at = {} THEN 0 ELSE MinOf(at)
        Ordered(lines, extra) ==
          LET own == Len(lines) - Len(extra)
          IN /\ own >= 0
             /\ \A j \in 1..Len(extra) : lines[own + j] = Template(extra[j]) \o <<";">>
             /\ \A j \in 1..own : Rank(lines[j]) > 0
             /\ \A j \in 1..(own - 1) : Rank(lines[j]) <= Rank(lines[j + 1])
    IN /\ Len(blocks) = Len(locs)
       /\ \A i \in 1..Len(blocks) :
            Ordered(BodyLines(blocks[i].body), GetK(locs[i], "extraDirectives").e)

\* C22: in every location block generateNginxConfig emits the clauses appear
\* in the order proxy, root (with index/try_files), PHP/FastCGI, WebSocket,
\* cache, CORS, rate-limit, and the passthrough directives come last.
C22_LocationClauseOrder ==
  ClausesInOrder(<<"proxy", "root", "php", "websocket", "cache", "cors", "rate">>)

\* C22 as the generator has it: the WebSocket clauses follow the proxy clauses
\* and precede root, the other groups and the passthrough directives as claimed.
C22_WebsocketAfterProxy ==
  ClausesInOrder(<<"proxy", "websocket", "root", "php", "cache", "cors", "rate">>)

\* a text with a location block that holds WebSocket, root and PHP clauses
C22_Witness ==
  /\ texts # <<>>
  /\ texts[1].ok
  /\ \E i \in 1..Len(LocationBlocks(texts[1].v.s)) :
       LET lines == BodyLines(LocationBlocks(texts[1].v.s)[i].body)
       IN {"websocket", "root", "php"} \subseteq {ClauseKind(lines[j]) : j \in 1..Len(lines)}

\* C23: every ssl_* line of the main server block is there for a field the
\* schema's ssl block has, and a schema with an ssl block that has no
\* certificate and no certificateKey gets `listen <port> ssl` without an
\* ssl_certificate or ssl_certificate_key line.
C23_ConditionalSsl ==
  \A i \in 1..Len(texts) :
    texts[i].ok =>
      LET ssl == GetK(given, "ssl")
          tops == TopBlocks(texts[i].v.s)
          lines == BodyLines(tops[Len(tops)].body)
          FieldOf(line) ==
            IF StartsWith(line, Chars("ssl_certificate ")) THEN "certificate"
            ELSE IF StartsWith(line, Chars("ssl_certificate_key ")) THEN "certificateKey"
            ELSE IF StartsWith(line, Chars("ssl_protocols ")) THEN "protocols"
            ELSE IF StartsWith(line, Chars("ssl_ciphers ")) THEN "ciphers"
            ELSE IF StartsWith(line, Chars("ssl_prefer_server_ciphers ")) THEN "preferServerCiphers"
            ELSE IF StartsWith(line, Chars("ssl_dhparam ")) THEN "dhParam"
            ELSE IF StartsWith(line, Chars("ssl_stapling")) THEN "ocspStapling"
            ELSE IF StartsWith(line, Chars("ssl_session_timeout ")) THEN "sessionTimeout"
            ELSE IF StartsWith(line, Chars("ssl_session_tickets ")) THEN "sessionTickets"
            ELSE ""
      IN /\ \A j \in 1..Len(lines) :
              StartsWith(lines[j], Chars("ssl_"))
                => (FieldOf(lines[j]) # "" /\ GetK(ssl, FieldOf(lines[j])) # Undefined)
         /\ ssl # Undefined
              => lines[1] = Chars("listen ") \o Template(GetK(given, "port")) \o Chars(" ssl;")

----------------------------------------------------------------------------
(* SpecQuoted: nginx2json on server blocks whose Content-Security-Policy    *)
(* header has a quoted value of up to MaxPolicies policies joined by `; `   *)
(* (as lines 30 and 34 of the example configuration).                       *)

MaxPolicies == 3

\* the input files: one server block with the header line, optionally after a
\* listen line and before a gzip line
QuotedTexts ==
  LET Policies == <<"d 's'", "i *", "f">>
      Value(ps) == Join([i \in 1..Len(ps) |-> Chars(Policies[ps[i]])], Chars("; "))
  IN {Chars("server {\n") \o Chars(before)
        \o Chars("add_header Content-Security-Policy \"") \o Value(ps) \o Chars("\";\n")
        \o Chars(after) \o Chars("}\n") :
      before \in {"", "listen 80;\n"}, after \in {"", "gzip on;\n"},
      ps \in UNION {[1..k -> 1..Len(Policies)] : k \in 1..MaxPolicies}}

InitQuoted ==
  /\ input \in QuotedTexts
  /\ extracted = [ok |-> FALSE, v |-> Undefined]
  /\ regenerated = [ok |-> FALSE, v |-> Undefined]
  /\ xpc = "read"
  /\ given = Undefined
  /\ schema = Undefined
  /\ texts = <<>>
  /\ responses = <<>>
  /\ written = <<>>
  /\ ParseIdle
  /\ PathIdle
  /\ SvcIdle
  /\ OpsIdle

SpecQuoted == InitQuoted /\ [][NextExtract]_vars

\* the policies written in the quoted value of the input: the text between
\* the first and the last double quote, split at `;`
QuotedPolicies ==
  LET quotes == {i \in 1..Len(input) : input[i] = "\""}
      Trimmed(parts) == [i \in 1..Len(parts) |-> Trim(parts[i])]
  IN Trimmed(Split(SubSeq(input, MinOf(quotes) + 1, MaxOf(quotes) - 1), ";"))

\* C24: the header line with a quoted value `p1; ...; pN` is kept as one
\* directive (the server block has one directive per line of the input) and
\* extracts to security.contentSecurityPolicy = [p1, ..., pN].
C24_QuotedValuesSurvive ==
  xpc # "read" =>
    LET Kept(directives) == Len(directives) = CountSub(input, <<"\n">>) - 2
    IN /\ Kept(AsArray(GetK(GetK(NginxParser_parse(input), "server"), "_directives")))
       /\ extracted.ok
       /\ GetK(GetK(extracted.v, "security"), "contentSecurityPolicy") = StrArr(QuotedPolicies)

----------------------------------------------------------------------------
(* Claims about statement splitting and the path stack of Parser.toJSON,    *)
(* checked on SpecParse.                                                    *)

\* the text with a line break after every `;`: its directives one per line
OnePerLine(text) == Join(Split(text, ";"), <<";", "\n">>)

\* C25: a text of directives and blocks (no by_lua_block script) parses to the
\* same tree as the same text with every directive on a line of its own.
C25_StatementSplitting ==
  (pc = "parsed" /\ ~Includes(conf, LuaSuffix))
    => st.json = toJSON(OnePerLine(conf), NoIncludes)

\* the current path (the local `parent` of toJSON) after the first k lines of
\* the text
PathAfter(k) ==
  LET Scan(lines) == toJSONScan(Join(SubSeq(lines, 1, k), <<"\n">>), NoIncludes).parent
  IN Scan(Split(conf, "\n"))

\* C26: in a text of directives and blocks (no by_lua_block script, whose
\* braces are script text), whenever the lines after the first k of the text
\* scanned so far are brace-balanced (every block opened in them has been
\* closed, and they close no other), the current path is the path that was
\* current after the first k lines; so after a brace-balanced text the path
\* is empty.
C26_PathStackDiscipline ==
  (pc = "scan" /\ lineNo > 0 /\ ~Includes(conf, LuaSuffix)) =>
    LET Rest(lines, k) == Join(SubSeq(lines, k + 1, Len(lines)), <<"\n">>)
    IN \A k \in 0..(lineNo - 1) :
         Balanced(Rest(Split(conf, "\n"), k)) => st.parent = PathAfter(k)


----------------------------------------------------------------------------
(* SpecAcme: one LetsEncryptClient and the calls a program makes on its      *)
(* public methods, one after the other.  The ACME server is an input: what   *)
(* it would answer to the requests of a call.  `wire` holds the requests     *)
(* sent so far, `run` one record per call made.                              *)

MaxAcmeCalls == 2

\* the most authorizations an order holds
MaxAuths == 1

\* the most `pending` answers before an authorization is settled
MaxPolls == 1

\* private directory = {}, account = null, nonce = null
FreshClient == [directory |-> "empty", account |-> "null", nonce |-> "null"]

\* what the server answers: response.ok of every signed request, the number
\* of authorizations of the order, whether an authorization offers an http-01
\* challenge, and the status of an authorization after `polls` pending ones
Servers ==
  [ok : BOOLEAN, auths : 0..MaxAuths, http01 : BOOLEAN,
   polls : 0..MaxPolls, final : {"valid", "invalid"}]

\* this.directory.<name>: undefined until initialize has loaded the directory
Endpoint(c, name) == IF c.directory = "loaded" THEN name ELSE "undefined"

\* a call that returned, and a call that threw
Ret(c, w, value) ==
  [threw |-> FALSE, error |-> "", client |-> c, wire |-> w, value |-> value]

Thrown(c, w, error) ==
  [threw |-> TRUE, error |-> error, client |-> c, wire |-> w, value |-> FALSE]

\* signedRequest(url, payload, method): refused without an account; else a
\* nonce is fetched if none is held, the request is signed with the account
\* key and sent, and the Replay-Nonce of the answer is kept
signedRequest(s, url, method, ok) ==
  IF s.client.account = "null"
  THEN Thrown(s.client, s.wire, "Account not initialized")
  ELSE LET Send(w) ==
             Ret([s.client EXCEPT !.nonce = "replay"],
                 Append(w, [url |-> url, method |-> method, kid |-> s.client.account]),
                 ok)
       IN Send(IF s.client.nonce = "null"
               THEN Append(s.wire, [url |-> Endpoint(s.client, "newNonce"),
                                    method |-> "HEAD", kid |-> "none"])
               ELSE s.wire)

\* initialize(): fetch(this.baseUrl), this.directory = the answer
initialize(s) ==
  Ret([s.client EXCEPT !.directory = "loaded"],
      Append(s.wire, [url |-> "directory", method |-> "GET", kid |-> "none"]),
      TRUE)

\* createAccount(email): a key pair, the signed newAccount request, and only
\* after an OK answer this.account = {privateKey, url, contact}
createAccount(s, srv) ==
  LET After(r) ==
        IF r.threw THEN r
        ELSE IF ~r.value THEN Thrown(r.client, r.wire, "Failed to create account")
        ELSE Ret([r.client EXCEPT !.account = "acct"], r.wire, TRUE)
  IN After(signedRequest(s, Endpoint(s.client, "newAccount"), "POST", srv.ok))

\* createOrder(domain): the order, of which the model keeps the number of
\* authorizations
createOrder(s, srv) ==
  LET After(r) ==
        IF r.threw THEN r
        ELSE IF ~r.value THEN Thrown(r.client, r.wire, "Failed to create order")
        ELSE Ret(r.client, r.wire, srv.auths)
  IN After(signedRequest(s, Endpoint(s.client, "newOrder"), "POST", srv.ok))

\* getAuthorization(url): the authorization, of which the model keeps whether
\* it offers an http-01 challenge
getAuthorization(s, srv) ==
  LET After(r) ==
        IF r.threw THEN r
        ELSE IF ~r.value THEN Thrown(r.client, r.wire, "Failed to get authorization")
        ELSE Ret(r.client, r.wire, srv.http01)
  IN After(signedRequest(s, "authz", "GET", srv.ok))

\* verifyChallenge(challenge)
verifyChallenge(s, srv) ==
  LET After(r) ==
        IF r.threw THEN r
        ELSE IF ~r.value THEN Thrown(r.client, r.wire, "Failed to verify challenge")
        ELSE Ret(r.client, r.wire, TRUE)
  IN After(signedRequest(s, "challenge", "POST", srv.ok))

\* waitForValidation(url): `while (true)` after polled pending answers
RECURSIVE waitForValidationLoop(_, _, _)
waitForValidationLoop(s, srv, polled) ==
  LET After(r) ==
        IF r.threw THEN r
        ELSE IF ~r.value THEN Thrown(r.client, r.wire, "Failed to check status")
        ELSE IF polled < srv.polls THEN waitForValidationLoop(r, srv, polled + 1)
        ELSE IF srv.final = "valid" THEN Ret(r.client, r.wire, TRUE)
        ELSE Thrown(r.client, r.wire, "Challenge validation failed")
  IN After(signedRequest(s, "authz", "GET", srv.ok))

waitForValidation(s, srv) == waitForValidationLoop(s, srv, 0)

\* `for (const authUrl of order.authorizations)` of generateCertificate with
\* left authorizations to go; trace names the methods entered so far
RECURSIVE Authorizations(_, _, _, _)
Authorizations(s, srv, left, trace) ==
  IF left = 0
  THEN [out |-> Ret(s.client, s.wire, TRUE), trace |-> trace]
  ELSE LET Waited(r) ==
             IF r.threw
             THEN [out |-> r,
                   trace |-> trace \o <<"getAuthorization", "verifyChallenge", "waitForValidation">>]
             ELSE Authorizations(r, srv, left - 1,
                    trace \o <<"getAuthorization", "verifyChallenge", "waitForValidation">>)
           Verified(r) ==
             IF r.threw
             THEN [out |-> r, trace |-> trace \o <<"getAuthorization", "verifyChallenge">>]
             ELSE Waited(waitForValidation(r, srv))
           Authorized(r) ==
             IF r.threw
             THEN [out |-> r, trace |-> Append(trace, "getAuthorization")]
             ELSE IF ~r.value
             THEN [out |-> Thrown(r.client, r.wire, "No HTTP challenge found"),
                   trace |-> Append(trace, "getAuthorization")]
             ELSE Verified(verifyChallenge(r, srv))
       IN Authorized(getAuthorization(s, srv))

\* generateCertificate(domain, email)
generateCertificate(s, srv) ==
  LET Ordered(r) ==
        IF r.threw
        THEN [out |-> r, trace |-> <<"initialize", "createAccount", "createOrder">>]
        ELSE Authorizations(r, srv, r.value,
                            <<"initialize", "createAccount", "createOrder">>)
      Registered(r) ==
        IF r.threw
        THEN [out |-> r, trace |-> <<"initialize", "createAccount">>]
        ELSE Ordered(createOrder(r, srv))
  IN Registered(createAccount(initialize(s), srv))

\* new LetsEncryptClient(staging): nothing has been sent
InitAcme ==
  /\ client = FreshClient
  /\ run = <<>>
  /\ wire = <<>>
  /\ disk = <<>>
  /\ writes = <<>>
  /\ jobs = <<>>
  /\ ParseIdle
  /\ PathIdle
  /\ SvcIdle
  /\ AppIdle

\* the record of a call of method that ended as r: whether it was the first
\* call on the client, how it ended, the requests it sent and the account the
\* client holds after it
Called(method, answers, r, trace) ==
  [method |-> method, fresh |-> run = <<>>, answers |-> answers,
   threw |-> r.threw, error |-> r.error, trace |-> trace,
   sent |-> SubSeq(r.wire, Len(wire) + 1, Len(r.wire)),
   account |-> r.client.account]

Initialize ==
  /\ Len(run) < MaxAcmeCalls
  /\ LET Done(r) ==
           /\ client' = r.client
           /\ wire' = r.wire
           /\ run' = Append(run, Called("initialize", "none", r, <<"initialize">>))
     IN Done(initialize([client |-> client, wire |-> wire]))
  /\ UNCHANGED <<disk, writes, jobs>>
  /\ UNCHANGED <<parseVars, pathVars, svcVars, appVars>>

CreateAccount ==
  /\ Len(run) < MaxAcmeCalls
  /\ \E srv \in Servers :
       LET Done(r) ==
             /\ client' = r.client
             /\ wire' = r.wire
             /\ run' = Append(run, Called("createAccount", "none", r, <<"createAccount">>))
       IN Done(createAccount([client |-> client, wire |-> wire], srv))
  /\ UNCHANGED <<disk, writes, jobs>>
  /\ UNCHANGED <<parseVars, pathVars, svcVars, appVars>>

CreateOrder ==
  /\ Len(run) < MaxAcmeCalls
  /\ \E srv \in Servers :
       LET Done(r) ==
             /\ client' = r.client
             /\ wire' = r.wire
             /\ run' = Append(run, Called("createOrder", "none", r, <<"createOrder">>))
       IN Done(createOrder([client |-> client, wire |-> wire], srv))
  /\ UNCHANGED <<disk, writes, jobs>>
  /\ UNCHANGED <<parseVars, pathVars, svcVars, appVars>>

GetAuthorization ==
  /\ Len(run) < MaxAcmeCalls
  /\ \E srv \in Servers :
       LET Done(r) ==
             /\ client' = r.client
             /\ wire' = r.wire
             /\ run' = Append(run, Called("getAuthorization", "none", r, <<"getAuthorization">>))
       IN Done(getAuthorization([client |-> client, wire |-> wire], srv))
  /\ UNCHANGED <<disk, writes, jobs>>
  /\ UNCHANGED <<parseVars, pathVars, svcVars, appVars>>

VerifyChallenge ==
  /\ Len(run) < MaxAcmeCalls
  /\ \E srv \in Servers :
       LET Done(r) ==
             /\ client' = r.client
             /\ wire' = r.wire
             /\ run' = Append(run, Called("verifyChallenge", "none", r, <<"verifyChallenge">>))
       IN Done(verifyChallenge([client |-> client, wire |-> wire], srv))
  /\ UNCHANGED <<disk, writes, jobs>>
  /\ UNCHANGED <<parseVars, pathVars, svcVars, appVars>>

WaitForValidation ==
  /\ Len(run) < MaxAcmeCalls
  /\ \E srv \in Servers :
       LET Done(r) ==
             /\ client' = r.client
             /\ wire' = r.wire
             /\ run' = Append(run, Called("waitForValidation", "none", r, <<"waitForValidation">>))
       IN Done(waitForValidation([client |-> client, wire |-> wire], srv))
  /\ UNCHANGED <<disk, writes, jobs>>
  /\ UNCHANGED <<parseVars, pathVars, svcVars, appVars>>

\* main(): client.generateCertificate(flags.domain, flags.email)
GenerateCertificate ==
  /\ Len(run) < MaxAcmeCalls
  /\ \E srv \in Servers :
       LET Done(g) ==
             /\ client' = g.out.client
             /\ wire' = g.out.wire
             /\ run' = Append(run, Called("generateCertificate", srv, g.out, g.trace))
       IN Done(generateCertificate([client |-> client, wire |-> wire], srv))
  /\ UNCHANGED <<disk, writes, jobs>>
  /\ UNCHANGED <<parseVars, pathVars, svcVars, appVars>>

NextAcme ==
  \/ Initialize
  \/ CreateAccount
  \/ CreateOrder
  \/ GetAuthorization
  \/ VerifyChallenge
  \/ WaitForValidation
  \/ GenerateCertificate

SpecAcme == InitAcme /\ [][NextAcme]_vars

\* the methods of a complete run for an order of n authorizations
RECURSIVE StepOrder(_)
StepOrder(n) ==
  IF n = 0 THEN <<"initialize", "createAccount", "createOrder">>
  ELSE StepOrder(n - 1) \o <<"getAuthorization", "verifyChallenge", "waitForValidation">>

\* C30: a generateCertificate on a fresh client enters its methods in the
\* order initialize, createAccount, createOrder, then getAuthorization,
\* verifyChallenge, waitForValidation per authorization; and when the server
\* answers OK, the signed newAccount request is sent, the account is
\* recorded, and createOrder is reached.
C30_AcmeStepOrder ==
  \A i \in 1..Len(run) :
    (run[i].method = "generateCertificate" /\ run[i].fresh) =>
      /\ run[i].trace = SubSeq(StepOrder(MaxAuths), 1, Len(run[i].trace))
      /\ run[i].answers.ok =>
           /\ \E k \in 1..Len(run[i].sent) :
                run[i].sent[k].url = "newAccount" /\ run[i].sent[k].kid # "none"
           /\ run[i].account # "null"
           /\ Len(run[i].trace) >= 3 /\ run[i].trace[3] = "createOrder"

====
